---- MODULE Spec2Model ----
(***************************************************************************)
(* Panorama Tab Groups: the background coordinator that keeps the logical  *)
(* group registry (browser.sessions values), the host's tab visibility and *)
(* the host's native tab groups in step.                                   *)
(*                                                                         *)
(* The stores and the host are the variables.  Every handler is an         *)
(* operator from a world record (all variables as fields) to the world     *)
(* record it leaves behind, translated statement by statement; an action   *)
(* applies one handler to the current world.                               *)
(***************************************************************************)
EXTENDS Integers, Sequences, FiniteSets, TLC

\* ---------------------------------------------------------------- bounds
NumWindows == 2
NumTabs == 3
MaxGroupIndex == 2
MaxNative == 3
MaxSteps == 3
MaxLifecycleSteps == 4
MaxListLen == 2
MaxVisibilitySteps == 4
MaxReconcileSteps == 4
MaxTeardownSteps == 7
MaxMisplacedSteps == 3
MaxInitSteps == 4
MaxNow == 4
MaxAllocSteps == 6
MaxWindowSteps == 4
MaxViewSteps == 5
MaxMoveSteps == 5
MaxArrangeSteps == 4
MaxRegistrySteps == 6

Windows == 1..NumWindows
\* the two places that call cleanupNativeGroups: the storage.onChanged
\* listener and the handler of the cleanupNativeGroups message
Invocations == {"listener", "message"}
Tabs == 1..NumTabs
\* the handlers that start with waitForInitialization, one per tab or window
Handlers == ({"created", "attached", "activated"} \X Tabs) \cup ({"window"} \X Windows)
\* a handler that is not in waitForInitialization
NoWait == [st |-> "none", since |-> 0, blocked |-> FALSE]
\* the create operations that can be in flight at once: two create() calls of
\* the overview page and the background's createGroupInWindow
Creators == {"first", "second", "background"}
NoCreate == [pc |-> "idle", uid |-> 0, window |-> 0]
\* backgroundState.openingView when it is null
NoOpening == [tracked |-> FALSE, tabId |-> 0, windowId |-> 0, fresh |-> FALSE]
\* the overview page before its registry has run init()
NoView == [windowId |-> 0, groups |-> <<>>]
\* no migrateToHybridGroups call is under way
NoMigration == [running |-> FALSE, todo |-> {}, window |-> 0, groups |-> <<>>]

\* ------------------------------------------------------------- constants
PANORAMA_VIEW_GROUP_ID == -1
UNGROUPED_GROUP_ID == -2
UNGROUPED_GROUP_NAME == "Ungrouped Tabs"
INITIALIZATION_TIMEOUT_MS == 10000
\* the extra second waitForInitialization allows beyond the timeout
WaitBufferMs == 1000
\* length of one tick of model time; the wait loop polls every 100 ms,
\* many times within a tick
TickMs == 5500
\* a sessions value that was never set (JavaScript undefined)
Undef == -9
\* a tab that has not moved between windows
NoDrag == [from |-> 0, had |-> Undef, done |-> FALSE]
\* Group.nativeGroupId null / absent; host ids of native groups are >= 1
NoNative == 0
\* tabWin of a tab that is not open
Closed == 0
DEBUG == TRUE
hasTabHide == TRUE
hasTabGroups == TRUE

VARIABLES
  groups,            \* sessions window value 'groups': Seq of group records, <<>> = unset
  activeGroup,       \* sessions window value 'activeGroup'
  groupIndex,        \* sessions window value 'groupIndex' (0 = unset)
  tabGroup,          \* sessions tab value 'groupId'
  tabWin,            \* host: window of each tab, Closed if not open
  tabHidden,         \* host: tab.hidden
  tabNative,         \* host: tab.groupId (NoNative for -1)
  tabPinned,         \* host: tab.pinned
  tabView,           \* host: tab.url is view.html
  activeTab,         \* host: active tab of each window (0 if none)
  curWin,            \* host: windows.getCurrent()
  nextNative,        \* host: next native group id
  migrationComplete, \* storage.local hybridGroupsMigrationComplete
  useNativeGroups,   \* storage.sync option useNativeGroups
  pendingActivated,  \* tabs.onActivated events not yet handled
  pendingRemoved,    \* tabGroups.onRemoved events not yet handled: <<id, window>>
  winHandler,        \* windows.onCreated handler of each window: "idle", "pending"
                     \* (announced, not started), "created" (groups written,
                     \* activeGroup not yet)
  newWinGroup,       \* the id createGroupInWindow allocated, while "created"
  phase,             \* position of init(): "recover","setup","salvage","migrate","run"
  calls,             \* host calls issued by the last handler
  threw,             \* the last handler ended by an uncaught exception
  pendingCreated,    \* tabs.onCreated events not yet handled
  created,           \* the last tabs.onCreated event handled, and the window's
                     \* activeGroup and group ids as the handler found them
  given,             \* the argument of the last direct setGroups call; after
                     \* a windows.onCreated handler, its window and the list
                     \* it found there
  wasMirrored,       \* the last teardown started from a migrated state in
                     \* which every active group with tabs was mirrored
  startup,           \* what init() found: each tab's stored groupId and the
                     \* windows that had a groups list
  toggled,           \* the toggleVisibleTabs invocations of the last handler,
                     \* in order, each with the host calls it issued
  deferred,          \* tabs whose tabs.onActivated handler returned early for
                     \* want of an assignment, tabs.onCreated not yet handled
  activated,         \* the tab the last handler was activated for, if it was
                     \* a tabs.onActivated handler (0 otherwise)
  isCleanupInProgress, \* native-groups.js: the flag that suppresses the
                     \* tabGroups.onRemoved listener during teardown
  teardown,          \* position of each cleanupNativeGroups invocation:
                     \* "idle", "queued", "started" (flag set), "stripped"
                     \* (lists written, completion flag not yet reset)
  optionStored,      \* storage.sync holds a useNativeGroups value: "unset",
                     \* "true", "false"
  tornDown,          \* ids of the native groups teardown has dissolved
  isInitializing,    \* initializationState.isInitializing
  maxTimer,          \* the maxTimeout timer of initializeTabGroupAssignments:
                     \* "unset", "armed", "fired", "cleared"
  now,               \* time since init() was called, in ticks of TickMs
  startTime,         \* initializationState.startTime, in ticks
  refreshed,         \* refreshView has registered the listeners
  waits,             \* each handler's stay in waitForInitialization: st is
                     \* "none", "waiting" or "released"; since is the time it
                     \* entered; blocked tells whether it found the flag set
  waited,            \* the stay in waitForInitialization of the handler that
                     \* ran last
  view,              \* the overview page's registry (groups.js): windowId (0
                     \* until init() has run) and its in-memory groups array
  creating,          \* each create operation in flight: pc is "idle", "read"
                     \* (it holds uid) or "indexed" (groupIndex written)
  openingView,       \* backgroundState.openingView: tracked is FALSE for null;
                     \* tabId is 0 until tabs.create has returned; fresh while
                     \* less than 100 ms have passed since creationTimestamp
  dragged,           \* per tab, its last move between windows: the window it
                     \* left (0 if it never moved), the groupId it had there,
                     \* and whether tabs.onAttached has been handled to the end
  uids,              \* per window, the ids newUid and newGroupUid have
                     \* returned, in the order they returned them
  migrating,         \* the migrateToHybridGroups call told step by step: the
                     \* windows still to do, and the window whose list
                     \* migrateWindowGroups has read (0 if none) with that list
  lastOp,            \* the last handler that ran
  prevOp,            \* the handler that ran before it
  steps              \* number of events delivered so far

vars == <<groups, activeGroup, groupIndex, tabGroup, tabWin, tabHidden,
          tabNative, tabPinned, tabView, activeTab, curWin, nextNative,
          migrationComplete, useNativeGroups, pendingActivated,
          pendingRemoved, winHandler, newWinGroup, phase, calls, threw,
          pendingCreated, created, given, wasMirrored, startup, toggled,
          deferred, activated, isCleanupInProgress, teardown, optionStored,
          tornDown, isInitializing, maxTimer, now, startTime, refreshed, waits,
          waited, view, creating, uids, openingView, dragged, migrating,
          lastOp, prevOp, steps>>

\* the current world as a record
World ==
  [groups |-> groups, activeGroup |-> activeGroup, groupIndex |-> groupIndex,
   tabGroup |-> tabGroup, tabWin |-> tabWin, tabHidden |-> tabHidden,
   tabNative |-> tabNative, tabPinned |-> tabPinned, tabView |-> tabView,
   activeTab |-> activeTab, curWin |-> curWin, nextNative |-> nextNative,
   migrationComplete |-> migrationComplete, useNativeGroups |-> useNativeGroups,
   pendingActivated |-> pendingActivated, pendingRemoved |-> pendingRemoved,
   winHandler |-> winHandler, newWinGroup |-> newWinGroup, given |-> given,
   pendingCreated |-> pendingCreated, created |-> created,
   wasMirrored |-> wasMirrored, startup |-> startup, deferred |-> deferred,
   isCleanupInProgress |-> isCleanupInProgress, teardown |-> teardown,
   optionStored |-> optionStored, tornDown |-> tornDown,
   isInitializing |-> isInitializing, maxTimer |-> maxTimer, now |-> now,
   startTime |-> startTime,
   refreshed |-> refreshed, waits |-> waits, waited |-> waited,
   view |-> view, creating |-> creating, uids |-> uids,
   openingView |-> openingView, dragged |-> dragged, migrating |-> migrating,
   calls |-> {}, log |-> <<>>, toggled |-> <<>>, activated |-> 0, threw |-> FALSE]

\* the next state is the world W
Moves(W) ==
  /\ groups' = W.groups
  /\ activeGroup' = W.activeGroup
  /\ groupIndex' = W.groupIndex
  /\ tabGroup' = W.tabGroup
  /\ tabWin' = W.tabWin
  /\ tabHidden' = W.tabHidden
  /\ tabNative' = W.tabNative
  /\ tabPinned' = W.tabPinned
  /\ tabView' = W.tabView
  /\ activeTab' = W.activeTab
  /\ curWin' = W.curWin
  /\ nextNative' = W.nextNative
  /\ migrationComplete' = W.migrationComplete
  /\ useNativeGroups' = W.useNativeGroups
  /\ pendingActivated' = W.pendingActivated
  /\ pendingRemoved' = W.pendingRemoved
  /\ winHandler' = W.winHandler
  /\ newWinGroup' = W.newWinGroup
  /\ given' = W.given
  /\ wasMirrored' = W.wasMirrored
  /\ pendingCreated' = W.pendingCreated
  /\ created' = W.created
  /\ startup' = W.startup
  /\ toggled' = W.toggled
  /\ deferred' = W.deferred
  /\ activated' = W.activated
  /\ isCleanupInProgress' = W.isCleanupInProgress
  /\ teardown' = W.teardown
  /\ optionStored' = W.optionStored
  /\ tornDown' = W.tornDown
  /\ isInitializing' = W.isInitializing
  /\ maxTimer' = W.maxTimer
  /\ startTime' = W.startTime
  /\ now' = W.now
  /\ refreshed' = W.refreshed
  /\ waits' = W.waits
  /\ waited' = W.waited
  /\ view' = W.view
  /\ creating' = W.creating
  /\ uids' = W.uids
  /\ openingView' = W.openingView
  /\ dragged' = W.dragged
  /\ migrating' = W.migrating
  /\ calls' = W.calls
  /\ threw' = W.threw

\* the next state is the world W, reached by handler op
Becomes(W, op) ==
  /\ Moves(W)
  /\ lastOp' = op
  /\ prevOp' = lastOp

\* ------------------------------------------------------------- utilities
SetMin(S) == CHOOSE x \in S : \A y \in S : x <= y

Ids(gs) == {gs[i].id : i \in 1..Len(gs)}

\* index of the first group with this id, 0 if none (Array.prototype.find)
Find(gs, id) ==
  IF \E i \in 1..Len(gs) : gs[i].id = id
    THEN SetMin({i \in 1..Len(gs) : gs[i].id = id})
    ELSE 0

\* Array.prototype.filter
RECURSIVE Filter(_, _)
Filter(gs, keep) ==
  IF gs = <<>> THEN <<>>
  ELSE IF Head(gs).id \in keep THEN <<Head(gs)>> \o Filter(Tail(gs), keep)
  ELSE Filter(Tail(gs), keep)

mod(x, n) == ((x % n) + n) % n

\* getLowestPositiveGroupId without the filter on ids >= 0
getLowestPositiveGroupId_AnyId(gs) ==
  IF Ids(gs) = {} THEN Undef ELSE SetMin(Ids(gs))

getLowestPositiveGroupId(gs) ==
  LET positiveIds == {id \in Ids(gs) : id >= 0}
  IN IF positiveIds = {} THEN Undef ELSE SetMin(positiveIds)

isReservedGroupId(g) == g = PANORAMA_VIEW_GROUP_ID \/ g = UNGROUPED_GROUP_ID

\* rect stands for the position in the overview grid (0: the default rect)
\* and lastMoved for its time stamp (0: when the group was made, 1: later)
NewGroup(id) ==
  [id |-> id, name |-> "Group", nativeGroupId |-> NoNative, isSystemGroup |-> FALSE,
   rect |-> 0, lastMoved |-> 0]

UngroupedGroup ==
  [id |-> UNGROUPED_GROUP_ID, name |-> UNGROUPED_GROUP_NAME,
   nativeGroupId |-> NoNative, isSystemGroup |-> TRUE,
   rect |-> 0, lastMoved |-> 0]

\* ---------------------------------------------------------- StateManager
\* ensureUngroupedGroupExists that only appends: an existing -2 entry is
\* left as it was handed in
ensureUngroupedGroupExists_KeepsEntry(gs) ==
  IF UNGROUPED_GROUP_ID \notin Ids(gs) THEN Append(gs, UngroupedGroup) ELSE gs

ensureUngroupedGroupExists(gs) ==
  IF UNGROUPED_GROUP_ID \notin Ids(gs)
    THEN Append(gs, UngroupedGroup)
    ELSE [gs EXCEPT ![Find(gs, UNGROUPED_GROUP_ID)] =
            [@ EXCEPT !.name = UNGROUPED_GROUP_NAME,
                      !.isSystemGroup = TRUE,
                      !.nativeGroupId = NoNative]]

setGroups(W, w, gs) == [W EXCEPT !.groups[w] = ensureUngroupedGroupExists(gs)]

getGroups(W, w) == W.groups[w]

setActiveGroup(W, w, g) == [W EXCEPT !.activeGroup[w] = g]

setTabGroup(W, t, g) == [W EXCEPT !.tabGroup[t] = g]

\* loadOptions: storage.sync.get(defaultOptions) returns the keys of
\* defaultOptions only; a key that is not among them reads as undefined
DefaultOptionKeys == {"toolbarPosition", "shortcut", "theme", "view"}

loadOptions(W) ==
  [useNativeGroups |->
     IF "useNativeGroups" \in DefaultOptionKeys
       THEN (IF W.useNativeGroups THEN "true" ELSE "false")
       ELSE "undefined"]

shouldUseNativeGroups(W) == hasTabGroups /\ loadOptions(W).useNativeGroups # "false"

\* ------------------------------------------------------------------ host
TabsIn(W, w) == {t \in Tabs : W.tabWin[t] = w}

\* windows.getAll(): a window is open while it holds a tab
OpenWindows(W) == {w \in Windows : TabsIn(W, w) # {}}

\* native groups that exist: those holding at least one open tab
NativeGroups(W) == {W.tabNative[t] : t \in {u \in Tabs : W.tabWin[u] # Closed}} \ {NoNative}

NativeWindow(W, n) == W.tabWin[CHOOSE t \in Tabs : W.tabWin[t] # Closed /\ W.tabNative[t] = n]

\* a host call is issued: calls holds the calls of the handler, log their
\* order; live tells whether the native group a call names existed
Log(W, c) == [W EXCEPT !.calls = @ \cup {c}, !.log = Append(@, c)]

\* the host moves the tabs ts into native group n (NoNative: out of every
\* group); a native group left without tabs is removed and the host
\* announces it with tabGroups.onRemoved
Regroup(W, ts, n) ==
  LET after == [t \in Tabs |-> IF t \in ts THEN n ELSE W.tabNative[t]]
      W1 == [W EXCEPT !.tabNative = after]
      gone == NativeGroups(W) \ NativeGroups(W1)
  IN [W1 EXCEPT !.pendingRemoved = @ \cup {<<m, NativeWindow(W, m)>> : m \in gone}]

\* browser.tabs.group({tabIds}) : a new native group
tabsGroupNew(W, ts) ==
  LET n == W.nextNative
  IN Log([Regroup(W, ts, n) EXCEPT !.nextNative = n + 1],
         [op |-> "group", tabs |-> ts, into |-> NoNative, live |-> TRUE])

\* browser.tabs.group({tabIds, groupId}) : into an existing native group
tabsGroupInto(W, ts, n) ==
  IF n \in NativeGroups(W)
    THEN Log(Regroup(W, ts, n), [op |-> "group", tabs |-> ts, into |-> n, live |-> TRUE])
    ELSE Log([W EXCEPT !.threw = TRUE],
             [op |-> "group", tabs |-> ts, into |-> n, live |-> FALSE])

\* browser.tabs.ungroup(tabIds)
tabsUngroup(W, ts) ==
  Log(Regroup(W, ts, NoNative),
      [op |-> "ungroup", tabs |-> ts, into |-> NoNative, live |-> TRUE])

\* browser.tabs.update(id, {active: true})
tabsActivate(W, t) ==
  LET w == W.tabWin[t]
  IN Log([W EXCEPT !.activeTab[w] = t,
                   !.tabHidden[t] = FALSE,
                   !.pendingActivated = IF W.activeTab[w] = t THEN @ ELSE @ \cup {t}],
         [op |-> "activate", tabs |-> {t}, into |-> NoNative, live |-> TRUE])

\* browser.tabs.hide(ids): the host never hides a pinned or the active tab
tabsHide(W, ts) ==
  Log([W EXCEPT !.tabHidden =
         [t \in Tabs |-> IF t \in ts /\ ~W.tabPinned[t]
                            /\ W.tabWin[t] # Closed /\ W.activeTab[W.tabWin[t]] # t
                         THEN TRUE ELSE W.tabHidden[t]]],
      [op |-> "hide", tabs |-> ts, into |-> NoNative, live |-> TRUE])

\* browser.tabs.show(ids)
tabsShow(W, ts) ==
  Log([W EXCEPT !.tabHidden = [t \in Tabs |-> IF t \in ts THEN FALSE ELSE W.tabHidden[t]]],
      [op |-> "show", tabs |-> ts, into |-> NoNative, live |-> TRUE])

\* browser.tabGroups.update(id, {collapsed}) on each id of ns; a vanished
\* group makes the call fail, which every caller swallows
RECURSIVE tabGroupsCollapse(_, _, _)
tabGroupsCollapse(W, ns, collapsed) ==
  IF ns = {} THEN W
  ELSE LET n == SetMin(ns)
       IN tabGroupsCollapse(
            Log(W, [op |-> IF collapsed THEN "collapse" ELSE "expand", tabs |-> {},
                    into |-> n, live |-> n \in NativeGroups(W)]),
            ns \ {n}, collapsed)

\* --------------------------------------------------- Visibility Controller
\* show-set and hide-set of toggleVisibleTabs in the current window
ShowTabIds(W, ag) ==
  {t \in TabsIn(W, W.curWin) :
     /\ ~W.tabPinned[t]
     /\ IF W.tabGroup[t] = -1 THEN ag = -1 ELSE W.tabGroup[t] = ag}

\* the hide-set without the test for pinned tabs
HideTabIds_WithPinned(W, ag) ==
  {t \in TabsIn(W, W.curWin) :
     IF W.tabGroup[t] = -1 THEN ag # -1 ELSE W.tabGroup[t] # ag}

HideTabIds(W, ag) ==
  {t \in TabsIn(W, W.curWin) :
     /\ ~W.tabPinned[t]
     /\ IF W.tabGroup[t] = -1 THEN ag # -1 ELSE W.tabGroup[t] # ag}

\* the activeGroup values toggleVisibleTabs refuses before computing anything
InvalidActiveGroup(ag) ==
  \/ ag = Undef
  \/ ag # PANORAMA_VIEW_GROUP_ID /\ ag < 0

\* the decision block that never aborts
AbortsOnEmptyShowSet_Never(show, hide) == FALSE

\* the DEBUG block aborts instead of hiding every tab
AbortsOnEmptyShowSet(show, hide) == DEBUG /\ show = {} /\ hide # {}

\* native groups of the groups other than ag that carry a nativeGroupId
LoserNativeGroups(gs, ag) ==
  {gs[j].nativeGroupId : j \in {k \in 1..Len(gs) :
                                  gs[k].nativeGroupId # NoNative /\ gs[k].id # ag}}

\* HideStep that hides the tabs before it collapses the native groups
HideStep_HidesFirst(W, gs, ag, hide) ==
  LET Wh == IF hasTabHide THEN tabsHide(W, hide) ELSE W
  IN IF hide = {} THEN W
     ELSE IF shouldUseNativeGroups(W) /\ gs # <<>>
       THEN tabGroupsCollapse(Wh, LoserNativeGroups(gs, ag), TRUE)
     ELSE Wh

\* Step 1: collapse the native groups of the other groups, then hide
HideStep(W, gs, ag, hide) ==
  LET Wc == IF shouldUseNativeGroups(W) /\ gs # <<>>
              THEN tabGroupsCollapse(W, LoserNativeGroups(gs, ag), TRUE) ELSE W
  IN IF hide = {} THEN W
     ELSE IF hasTabHide THEN tabsHide(Wc, hide) ELSE Wc

\* Step 2: show the tabs of ag, then uncollapse its native group
ShowStep(W, gs, ag, show) ==
  LET i == Find(gs, ag)
      Ws == IF hasTabHide THEN tabsShow(W, show) ELSE W
  IN IF show = {} THEN W
     ELSE IF shouldUseNativeGroups(Ws) /\ gs # <<>> /\ i # 0 /\ gs[i].nativeGroupId # NoNative
       THEN tabGroupsCollapse(Ws, {gs[i].nativeGroupId}, FALSE)
     ELSE Ws

\* the record of one invocation: its argument, the sets it computed and the
\* host calls it issued, in order
Invocation(W, R, ag, show, hide) ==
  [ag |-> ag, window |-> W.curWin, show |-> show, hide |-> hide,
   issued |-> SubSeq(R.log, Len(W.log) + 1, Len(R.log))]

\* pick stands for the order of lastAccessed among the tabs to show
toggleVisibleTabs(W, ag, noTabSelected, pick) ==
  LET show == ShowTabIds(W, ag)
      hide == HideTabIds(W, ag)
      windowId == W.curWin
      R == IF InvalidActiveGroup(ag) THEN W
           ELSE IF AbortsOnEmptyShowSet(show, hide) THEN W
           ELSE IF noTabSelected /\ show = {} THEN [W EXCEPT !.threw = TRUE]
           ELSE
             LET W1 == IF noTabSelected
                         THEN tabsActivate(W, IF pick \in show THEN pick ELSE SetMin(show))
                         ELSE W
                 gs == getGroups(W1, windowId)
             IN ShowStep(HideStep(W1, gs, ag, hide), gs, ag, show)
  IN [R EXCEPT !.toggled = Append(@, Invocation(W, R, ag, show, hide))]

\* -------------------------------------------------- materialization checks
\* tabs of window w that are not the view.html page
NonPanoramaTabs(W, w) == {t \in TabsIn(W, w) : ~W.tabView[t]}

\* the single-tab refusal of validateAndCheckSafety
WouldGroupOnlyTab(n, m) == n = m /\ m = 1

validateAndCheckSafety(W, groupTabs, w, panoramaGroupId) ==
  /\ groupTabs # {}
  /\ \E t \in Tabs : W.tabWin[t] = w
  /\ \A t \in groupTabs : W.tabWin[t] = w
  /\ \A t \in groupTabs : W.tabGroup[t] = panoramaGroupId
  /\ ~WouldGroupOnlyTab(Cardinality(groupTabs), Cardinality(NonPanoramaTabs(W, w)))

\* the all-tabs refusal of canSafelyGroupTabs
WouldGroupAllTabs(n, m) == n >= 1 /\ n = m

canSafelyGroupTabs(W, groupTabs, w) ==
  /\ \E t \in Tabs : W.tabWin[t] = w
  /\ ~WouldGroupAllTabs(Cardinality(groupTabs), Cardinality(NonPanoramaTabs(W, w)))
  /\ NonPanoramaTabs(W, w) # {}

\* tabs of window w whose logical group is g, the overview tab excluded
GroupTabs(W, w, g) ==
  {t \in TabsIn(W, w) : W.tabGroup[t] = g /\ W.tabGroup[t] # PANORAMA_VIEW_GROUP_ID}

\* store nativeGroupId n on the group at index i of gs and write the list
StoreNative(W, w, gs, i, n) ==
  setGroups(W, w, [gs EXCEPT ![i].nativeGroupId = n])

\* ------------------------------------------------------ Lifecycle handlers
\* the group tab-created resolves for a tab without assignment
ResolvedGroup(W, w) ==
  IF W.activeGroup[w] # Undef THEN W.activeGroup[w]
  ELSE IF getLowestPositiveGroupId(getGroups(W, w)) = Undef THEN 0
  ELSE getLowestPositiveGroupId(getGroups(W, w))

\* lines 617-648: assign the tab when it has no group yet
AssignCreatedTab(W, t) ==
  LET w == W.tabWin[t]
      g == ResolvedGroup(W, w)
  IN IF W.tabGroup[t] # Undef THEN W
     ELSE setTabGroup(IF W.activeGroup[w] = Undef THEN setActiveGroup(W, w, g) ELSE W, t, g)

\* lines 650-798: the native-group block of tabCreated.  ret: the handler
\* returned inside the block; vis: the block already updated visibility
CreatedNativeBlock(W, t, active, pick) ==
  LET w == W.tabWin[t]
      tabGroupId == W.tabGroup[t]
      gs == getGroups(W, w)
      i == Find(gs, tabGroupId)
      ag == W.activeGroup[w]
      groupTabs == GroupTabs(W, w, tabGroupId)
  IN IF ~(shouldUseNativeGroups(W) /\ tabGroupId # -1) THEN [W |-> W, ret |-> FALSE, vis |-> FALSE]
     ELSE IF i # 0 /\ gs[i].nativeGroupId = NoNative THEN
       IF groupTabs = {} THEN [W |-> W, ret |-> FALSE, vis |-> FALSE]
       ELSE IF ~validateAndCheckSafety(W, groupTabs, w, tabGroupId)
         THEN [W |-> W, ret |-> TRUE, vis |-> FALSE]
       ELSE
         LET W1 == tabsGroupNew(W, groupTabs)
             W2 == StoreNative(W1, w, gs, i, W.nextNative)
         IN IF active \/ tabGroupId = ag
              THEN [W |-> toggleVisibleTabs(W2, tabGroupId, FALSE, pick), ret |-> FALSE, vis |-> TRUE]
              ELSE [W |-> W2, ret |-> FALSE, vis |-> FALSE]
     ELSE IF i # 0 /\ gs[i].nativeGroupId # NoNative /\ tabGroupId = ag THEN
       LET W1 == tabsGroupInto(W, {t}, gs[i].nativeGroupId)
       IN IF W1.threw THEN [W |-> [W1 EXCEPT !.threw = FALSE], ret |-> FALSE, vis |-> FALSE]
          ELSE IF active
            THEN [W |-> toggleVisibleTabs(W1, tabGroupId, FALSE, pick), ret |-> FALSE, vis |-> TRUE]
            ELSE [W |-> W1, ret |-> FALSE, vis |-> FALSE]
     ELSE [W |-> W, ret |-> FALSE, vis |-> FALSE]

\* the overview tab told by its url alone
isViewTab_ByUrl(W, t) == W.tabView[t]

\* isViewTabById || isViewTabByWindow || isViewTabByUrl
isViewTab(W, t) ==
  \/ W.openingView.tracked /\ W.openingView.tabId = t
  \/ /\ W.openingView.tracked
     /\ W.openingView.windowId = W.tabWin[t]
     /\ W.openingView.fresh
  \/ W.tabView[t]

tabCreated(W, t, active, pick) ==
  IF isViewTab(W, t)
    THEN [setTabGroup(W, t, PANORAMA_VIEW_GROUP_ID) EXCEPT !.openingView = NoOpening]
  ELSE
    LET W1 == AssignCreatedTab(W, t)
        r == CreatedNativeBlock(W1, t, active, pick)
    IN IF r.ret THEN r.W
       ELSE IF active /\ W1.tabGroup[t] # -1 /\ ~r.vis
         THEN toggleVisibleTabs(r.W, W1.tabGroup[t], FALSE, pick)
         ELSE r.W

\* lines 898-1057: the native-group block of tabActivated
ActivatedNativeBlock(W, t) ==
  LET w == W.tabWin[t]
      ag == W.tabGroup[t]
      gs == getGroups(W, w)
      i == Find(gs, ag)
      existingNativeGroup == W.tabNative[t]
      groupTabs == GroupTabs(W, w, ag)
  IN IF ~shouldUseNativeGroups(W) THEN [W |-> W, ret |-> FALSE]
     ELSE IF i # 0 /\ gs[i].nativeGroupId = NoNative /\ existingNativeGroup = NoNative THEN
       IF groupTabs = {} THEN [W |-> W, ret |-> FALSE]
       ELSE IF ~validateAndCheckSafety(W, groupTabs, w, ag) THEN [W |-> W, ret |-> TRUE]
       ELSE [W |-> StoreNative(tabsGroupNew(W, groupTabs), w, gs, i, W.nextNative),
             ret |-> FALSE]
     ELSE IF i # 0 /\ gs[i].nativeGroupId = NoNative /\ existingNativeGroup # NoNative THEN
       [W |-> StoreNative(W, w, gs, i, existingNativeGroup), ret |-> FALSE]
     ELSE [W |-> W, ret |-> FALSE]

\* tabActivated without the tests for a pinned tab and a missing groupId
tabActivated_NoEarlyReturn(W, t, pick) ==
  LET w == W.tabWin[t]
      ag == W.tabGroup[t]
  IN IF ag # -1 THEN
       LET r == ActivatedNativeBlock(setActiveGroup(W, w, ag), t)
       IN IF r.ret THEN r.W ELSE toggleVisibleTabs(r.W, ag, FALSE, pick)
     ELSE toggleVisibleTabs(W, ag, FALSE, pick)

tabActivated(W, t, pick) ==
  LET w == W.tabWin[t]
      ag == W.tabGroup[t]
  IN IF W.tabPinned[t] THEN W
     ELSE IF ag = Undef THEN [W EXCEPT !.deferred = @ \cup {t}]
     ELSE IF ag # -1 THEN
       LET r == ActivatedNativeBlock(setActiveGroup(W, w, ag), t)
       IN IF r.ret THEN r.W ELSE toggleVisibleTabs(r.W, ag, FALSE, pick)
     ELSE toggleVisibleTabs(W, ag, FALSE, pick)

moveTab(W, t, g, pick) ==
  LET windowId == W.curWin
      W1 == setTabGroup(W, t, g)
      gs == getGroups(W1, windowId)
      i == Find(gs, g)
      ag == W1.activeGroup[windowId]
      W2 == IF ~shouldUseNativeGroups(W1) \/ i = 0 THEN W1
            ELSE IF gs[i].nativeGroupId # NoNative /\ g = ag
              THEN [tabsGroupInto(W1, {t}, gs[i].nativeGroupId) EXCEPT !.threw = FALSE]
            ELSE IF gs[i].nativeGroupId # NoNative THEN tabsUngroup(W1, {t})
            ELSE W1
  IN toggleVisibleTabs(W2, W2.activeGroup[windowId], FALSE, pick)

\* the first tab the host reports as active (tabs.query({active: true})[0])
FirstActiveTab(W) ==
  LET act == {W.activeTab[w] : w \in Windows} \ {0}
  IN IF act = {} THEN 0 ELSE W.activeTab[SetMin({w \in Windows : W.activeTab[w] # 0})]

\* menuClicked, one tab selected; near stands for the neighbouring visible tab
menuClicked(W, t, g, near, pick) ==
  LET visible == {u \in Tabs : W.tabWin[u] # Closed /\ ~W.tabHidden[u]}
      newActiveTab == IF near \in visible \ {t} THEN near
                      ELSE IF visible \ {t} # {} THEN SetMin(visible \ {t}) ELSE t
      W1 == IF FirstActiveTab(W) = t THEN tabsActivate(W, newActiveTab) ELSE W
  IN moveTab(W1, t, g, pick)

changeActiveGroupBy(W, offset, pick) ==
  LET windowId == W.curWin
      gs == getGroups(W, windowId)
      activeIndex == Find(gs, W.activeGroup[windowId]) - 1
      newIndex == activeIndex + offset
  IN IF gs = <<>> THEN [W EXCEPT !.threw = TRUE]
     ELSE LET ag == gs[mod(newIndex, Len(gs)) + 1].id
          IN toggleVisibleTabs(setActiveGroup(W, windowId, ag), ag, TRUE, pick)

\* --------------------------------------------------------- Group Registry
\* newGroupUid: the id handed out and the counter left behind
NextUid(W, w) == W.groupIndex[w]

createGroupInWindow(W, w) ==
  LET groupId == NextUid(W, w)
      W1 == [W EXCEPT !.groupIndex[w] = groupId + 1]
      \* setGroups pushes the ungrouped group onto this very array
      gs == ensureUngroupedGroupExists(<<NewGroup(groupId)>>)
      W2 == setGroups(W1, w, <<NewGroup(groupId)>>)
      lowestPositiveId == getLowestPositiveGroupId(gs)
  IN setActiveGroup(W2, w, IF lowestPositiveId # Undef THEN lowestPositiveId ELSE groupId)

\* createGroupInWindowIfMissing without the test of the stored list
createGroupInWindowIfMissing_Always(W, w) == createGroupInWindow(W, w)

createGroupInWindowIfMissing(W, w) ==
  IF getGroups(W, w) = <<>> THEN createGroupInWindow(W, w) ELSE W

\* view-side registry (groups.js): create() on a freshly loaded copy
viewCreate(W, w) ==
  LET newId == NextUid(W, w)
  IN [W EXCEPT !.groupIndex[w] = newId + 1,
               !.groups[w] = Append(@, NewGroup(newId))]

\* browser.tabs.remove(ids): the tabs and their session values are gone; when
\* the active tab goes the host activates another tab of the window (next);
\* a window that loses its last tab closes and its window values go with it,
\* and the focus passes to a window that stays open
tabsRemove(W, ts, next) ==
  LET left(w) == TabsIn(W, w) \ ts
      succ(w) == IF left(w) = {} THEN 0
                 ELSE IF next \in left(w) THEN next ELSE SetMin(left(w))
      lost == {w \in Windows : W.activeTab[w] \in ts}
      closed == {w \in OpenWindows(W) : left(w) = {}}
      W1 == Regroup(W, ts, NoNative)
  IN [W1 EXCEPT
        !.groups = [w \in Windows |-> IF w \in closed THEN <<>> ELSE W.groups[w]],
        !.activeGroup = [w \in Windows |-> IF w \in closed THEN Undef ELSE W.activeGroup[w]],
        !.groupIndex = [w \in Windows |-> IF w \in closed THEN 0 ELSE W.groupIndex[w]],
        !.winHandler = [w \in Windows |-> IF w \in closed THEN "idle" ELSE W.winHandler[w]],
        !.newWinGroup = [w \in Windows |-> IF w \in closed THEN Undef ELSE W.newWinGroup[w]],
        !.pendingRemoved = {e \in W1.pendingRemoved : e[2] \notin closed},
        !.pendingCreated = W.pendingCreated \ ts,
        !.deferred = W.deferred \ ts,
        !.curWin = IF W.curWin \in closed /\ OpenWindows(W) \ closed # {}
                     THEN SetMin(OpenWindows(W) \ closed) ELSE W.curWin,
        !.tabWin = [t \in Tabs |-> IF t \in ts THEN Closed ELSE W.tabWin[t]],
        !.tabGroup = [t \in Tabs |-> IF t \in ts THEN Undef ELSE W.tabGroup[t]],
        !.tabHidden = [t \in Tabs |-> IF t \in ts THEN FALSE
                                      ELSE IF \E w \in lost : succ(w) = t THEN FALSE
                                      ELSE W.tabHidden[t]],
        !.tabPinned = [t \in Tabs |-> IF t \in ts THEN FALSE ELSE W.tabPinned[t]],
        !.tabView = [t \in Tabs |-> IF t \in ts THEN FALSE ELSE W.tabView[t]],
        !.activeTab = [w \in Windows |-> IF w \in lost THEN succ(w) ELSE W.activeTab[w]],
        !.pendingActivated = (@ \ ts) \cup ({succ(w) : w \in lost} \ {0}),
        !.calls = @ \cup {[op |-> "remove", tabs |-> ts, into |-> NoNative, live |-> TRUE]},
        !.log = Append(@, [op |-> "remove", tabs |-> ts, into |-> NoNative, live |-> TRUE])]

\* the array deleteGroupWithCleanup tests for emptiness is the one setGroups
\* has just written, ungrouped group included
LeftGroupsAfterSave(leftGroups) == ensureUngroupedGroupExists(leftGroups)

\* (a window closed by the removal makes the storage read fail: the handler
\* answers success: false and writes nothing)
deleteGroupWithCleanup(W, groupId, windowId, nativeGroupId, tabIds, next) ==
  LET tabsToUngroup == {t \in tabIds : W.tabWin[t] = windowId /\ W.tabNative[t] = nativeGroupId}
      W1 == IF hasTabGroups /\ nativeGroupId # NoNative /\ tabsToUngroup # {}
              THEN tabsUngroup(W, tabsToUngroup) ELSE W
      W2 == IF tabIds # {} THEN tabsRemove(W1, tabIds, next) ELSE W1
      gs == getGroups(W2, windowId)
      leftGroups == Filter(gs, Ids(gs) \ {groupId})
      W3 == setGroups(W2, windowId, leftGroups)
  IN IF TabsIn(W2, windowId) = {} THEN W2
     ELSE IF gs = <<>> THEN W2
     ELSE IF Len(LeftGroupsAfterSave(leftGroups)) = 0 THEN createGroupInWindow(W3, windowId)
     ELSE W3

\* view-side remove(id): gathers the member tabs of the current window and
\* delegates to the background
viewRemove(W, w, id, next) ==
  LET gs == getGroups(W, w)
      tabIds == {t \in TabsIn(W, W.curWin) : W.tabGroup[t] = id}
  IN deleteGroupWithCleanup(W, id, w, gs[Find(gs, id)].nativeGroupId, tabIds, next)

\* ------------------------------------------------- Native Group Reconciler
\* tabGroups.get(n) succeeds
NativeExists(W, n) == n \in NativeGroups(W)

\* the test for the active group left out: every group is materialized
IsActiveGroup_Any(W, w, id) == TRUE

\* only the window's active group is materialized
IsActiveGroup(W, w, id) == id = W.activeGroup[w]

\* MigrateOne without the validation of a stored nativeGroupId: a group
\* that is already mirrored is mirrored again
MigrateOne_Revalidates(W, w, gs, k) ==
  LET group == gs[k]
      cleared == [gs EXCEPT ![k].nativeGroupId = NoNative]
      groupTabs == GroupTabs(W, w, group.id)
  IN IF groupTabs = {} THEN [W |-> W, gs |-> cleared]
     ELSE IF ~IsActiveGroup(W, w, group.id) THEN [W |-> W, gs |-> cleared]
     ELSE IF ~canSafelyGroupTabs(W, groupTabs, w) THEN [W |-> W, gs |-> cleared]
     ELSE [W |-> tabsGroupNew(W, groupTabs),
           gs |-> [gs EXCEPT ![k].nativeGroupId = W.nextNative]]

\* migrateWindowGroups, the callback of groups.map for the group at index k:
\* the world and the list with that group's result
MigrateOne(W, w, gs, k) ==
  LET group == gs[k]
      valid == group.nativeGroupId # NoNative /\ NativeExists(W, group.nativeGroupId)
      cleared == [gs EXCEPT ![k].nativeGroupId = NoNative]
      groupTabs == GroupTabs(W, w, group.id)
  IN IF valid THEN [W |-> W, gs |-> gs]
     ELSE IF groupTabs = {} THEN [W |-> W, gs |-> cleared]
     ELSE IF ~IsActiveGroup(W, w, group.id) THEN [W |-> W, gs |-> cleared]
     ELSE IF ~canSafelyGroupTabs(W, groupTabs, w) THEN [W |-> W, gs |-> cleared]
     ELSE [W |-> tabsGroupNew(W, groupTabs),
           gs |-> [gs EXCEPT ![k].nativeGroupId = W.nextNative]]

RECURSIVE MigrateFrom(_, _, _, _)
MigrateFrom(W, w, gs, k) ==
  IF k > Len(gs) THEN [W |-> W, gs |-> gs]
  ELSE LET r == MigrateOne(W, w, gs, k) IN MigrateFrom(r.W, w, r.gs, k + 1)

\* the DEBUG statistics dereference the list before it is tested
MigrateWindowThrows(W, w) == DEBUG /\ getGroups(W, w) = <<>>

migrateWindowGroups(W, w) ==
  IF getGroups(W, w) = <<>> THEN W
  ELSE LET r == MigrateFrom(W, w, getGroups(W, w), 1) IN setGroups(r.W, w, r.gs)

\* verifyNativeGroupPersistence for one window: every stale reference is
\* cleared in a copy of the list read at the start, and the copy is written
RECURSIVE VerifyFrom(_, _, _, _)
VerifyFrom(W, w, gs, k) ==
  IF k > Len(gs) THEN W
  ELSE IF gs[k].nativeGroupId # NoNative /\ ~NativeExists(W, gs[k].nativeGroupId)
    THEN VerifyFrom(setGroups(W, w, [gs EXCEPT ![k].nativeGroupId = NoNative]), w, gs, k + 1)
    ELSE VerifyFrom(W, w, gs, k + 1)

RECURSIVE verifyNativeGroupPersistence(_, _)
verifyNativeGroupPersistence(W, ws) ==
  IF ws = {} THEN W
  ELSE LET w == SetMin(ws)
       IN verifyNativeGroupPersistence(VerifyFrom(W, w, getGroups(W, w), 1), ws \ {w})

RECURSIVE MigrateWindows(_, _)
MigrateWindows(W, ws) ==
  IF ws = {} THEN W
  ELSE LET w == SetMin(ws) IN MigrateWindows(migrateWindowGroups(W, w), ws \ {w})

\* the flag is set whether or not a window's migration threw
FlagAfterMigration_Always(W) == TRUE

\* the completion flag migrateToHybridGroups leaves behind
FlagAfterMigration(W) ==
  IF \E w \in OpenWindows(W) : MigrateWindowThrows(W, w) THEN W.migrationComplete ELSE TRUE

migrateToHybridGroups(W) ==
  IF ~hasTabGroups THEN W
  ELSE IF W.migrationComplete THEN W
  ELSE LET W1 == MigrateWindows(W, OpenWindows(W))
           W2 == [W1 EXCEPT !.migrationComplete = FlagAfterMigration(W)]
       IN IF \E w \in OpenWindows(W) : MigrateWindowThrows(W, w) THEN W2
          ELSE verifyNativeGroupPersistence(W2, OpenWindows(W))

\* cleanupNativeGroups for one window
StripNative(gs) == [k \in 1..Len(gs) |-> [gs[k] EXCEPT !.nativeGroupId = NoNative]]

CleanupWindow(W, w) ==
  LET gs == getGroups(W, w)
      allTabsInGroups == {t \in TabsIn(W, w) : W.tabNative[t] # NoNative}
      W1 == IF allTabsInGroups # {} THEN tabsUngroup(W, allTabsInGroups) ELSE W
  IN IF gs = <<>> THEN W ELSE setGroups(W1, w, StripNative(gs))

RECURSIVE CleanupWindows(_, _)
CleanupWindows(W, ws) ==
  IF ws = {} THEN W
  ELSE LET w == SetMin(ws) IN CleanupWindows(CleanupWindow(W, w), ws \ {w})

\* cleanupNativeGroups that leaves the completion flag as it was
cleanupNativeGroups_KeepsFlag(W) == CleanupWindows(W, OpenWindows(W))

cleanupNativeGroups(W) ==
  [CleanupWindows(W, OpenWindows(W)) EXCEPT !.migrationComplete = FALSE]

\* a read or write of a window's groups list by the tabGroups.onRemoved
\* listener
Touches(W, what) == Log(W, [op |-> what, tabs |-> {}, into |-> NoNative, live |-> TRUE])

\* the listener's map callback found an entry that stores n
Cleared(W, gs, n) ==
  IF \E k \in 1..Len(gs) : gs[k].nativeGroupId = n THEN Touches(W, "cleared") ELSE W

\* tabGroups.onRemoved listener that drops the entry that stores n
nativeGroupRemoved_DropsGroup(W, n, w) ==
  LET gs == getGroups(W, w)
  IN IF W.isCleanupInProgress THEN W
     ELSE IF gs = <<>> THEN Touches(W, "getGroups")
     ELSE Touches(Touches(Cleared(setGroups(W, w,
            Filter(gs, {gs[k].id : k \in {j \in 1..Len(gs) : gs[j].nativeGroupId # n}})),
            gs, n), "getGroups"), "setGroups")

\* tabGroups.onRemoved listener
nativeGroupRemoved(W, n, w) ==
  LET gs == getGroups(W, w)
  IN IF W.isCleanupInProgress THEN W
     ELSE IF gs = <<>> THEN Touches(W, "getGroups")
     ELSE Touches(Touches(Cleared(setGroups(W, w, [k \in 1..Len(gs) |->
            IF gs[k].nativeGroupId = n THEN [gs[k] EXCEPT !.nativeGroupId = NoNative]
            ELSE gs[k]]), gs, n), "getGroups"), "setGroups")

\* ----------------------------------------------------------------- startup
RECURSIVE AssignTabs(_, _, _)
AssignTabs(W, gs, ts) ==
  IF ts = {} THEN W
  ELSE LET t == SetMin(ts)
           stored == W.tabGroup[t]
           groupId == IF stored = Undef THEN UNGROUPED_GROUP_ID
                      ELSE IF stored \notin Ids(gs) /\ ~isReservedGroupId(stored)
                        THEN UNGROUPED_GROUP_ID
                      ELSE stored
       IN AssignTabs(setTabGroup(W, t, groupId), gs, ts \ {t})

RECURSIVE initializeTabGroupAssignments(_, _)
initializeTabGroupAssignments(W, ws) ==
  IF ws = {} THEN W
  ELSE LET w == SetMin(ws)
           gs == getGroups(W, w)
           W1 == IF gs = <<>> THEN W
                 ELSE AssignTabs(setGroups(W, w, gs), ensureUngroupedGroupExists(gs),
                                 TabsIn(W, w))
       IN initializeTabGroupAssignments(W1, ws \ {w})

RECURSIVE setupWindows(_, _)
setupWindows(W, ws) ==
  IF ws = {} THEN W
  ELSE LET w == SetMin(ws) IN setupWindows(createGroupInWindowIfMissing(W, w), ws \ {w})

\* salvageGrouplessTabs that assigns nothing
salvageGrouplessTabs_Skips(W, ts) == W

RECURSIVE salvageGrouplessTabs(_, _)
salvageGrouplessTabs(W, ts) ==
  IF ts = {} THEN W
  ELSE LET t == SetMin(ts)
           w == W.tabWin[t]
           gs == getGroups(W, w)
           W1 == IF gs = <<>> THEN W
                 ELSE IF W.tabGroup[t] \notin Ids(gs) /\ W.tabGroup[t] # -1
                   THEN setTabGroup(W, t, W.activeGroup[w])
                 ELSE W
       IN salvageGrouplessTabs(W1, ts \ {t})

\* ------------------------------------------------------------------ Init
\* the registry an earlier version of the extension left in window 1: two
\* groups, no pseudo-group entry, no nativeGroupId
StoredGroups == <<NewGroup(0), NewGroup(1)>>

\* the browser starts: the host has its windows and tabs; either nothing is
\* stored (fresh profile) or window 1 carries the registry of an earlier
\* session, group 0 active, its tabs assigned to group 0 or 1 or unassigned
Init ==
  \E stored \in BOOLEAN :
  /\ groups = [w \in Windows |-> IF stored /\ w = 1 THEN StoredGroups ELSE <<>>]
  /\ activeGroup = [w \in Windows |-> IF stored /\ w = 1 THEN 0 ELSE Undef]
  /\ groupIndex = [w \in Windows |-> IF stored /\ w = 1 THEN 2 ELSE 0]
  /\ tabWin \in {f \in [Tabs -> Windows \cup {Closed}] : f[1] = 1}
  /\ tabGroup \in {f \in [Tabs -> {Undef, 0, 1}] :
                    /\ \A t \in Tabs : (~stored \/ tabWin[t] # 1) => f[t] = Undef
                    /\ stored => f[1] = 0}
  /\ tabHidden = [t \in Tabs |-> tabGroup[t] = 1]
  /\ tabNative = [t \in Tabs |-> NoNative]
  /\ tabPinned = [t \in Tabs |-> FALSE]
  /\ tabView = [t \in Tabs |-> FALSE]
  /\ activeTab = [w \in Windows |->
                    IF \E t \in Tabs : tabWin[t] = w
                      THEN SetMin({t \in Tabs : tabWin[t] = w}) ELSE 0]
  /\ curWin = 1
  /\ nextNative = 1
  /\ migrationComplete = FALSE
  /\ useNativeGroups = TRUE
  /\ pendingActivated = {}
  /\ pendingRemoved = {}
  /\ winHandler = [w \in Windows |-> "idle"]
  /\ newWinGroup = [w \in Windows |-> Undef]
  /\ phase = "recover"
  /\ given = [window |-> 1, present |-> FALSE, list |-> <<>>]
  /\ wasMirrored = FALSE
  /\ startup = [tabGroup |-> tabGroup, hadGroups |-> {w \in Windows : groups[w] # <<>>}]
  /\ toggled = <<>>
  /\ deferred = {}
  /\ activated = 0
  /\ isCleanupInProgress = FALSE
  /\ teardown = [who \in Invocations |-> "idle"]
  /\ optionStored = "unset"
  /\ tornDown = {}
  /\ isInitializing = TRUE
  /\ maxTimer = "unset"
  /\ startTime = 0
  /\ now = 0
  /\ refreshed = FALSE
  /\ waits = [h \in Handlers |-> NoWait]
  /\ waited = NoWait
  /\ view = NoView
  /\ creating = [c \in Creators |-> NoCreate]
  /\ uids = [w \in Windows |-> <<>>]
  /\ openingView = NoOpening
  /\ dragged = [t \in Tabs |-> NoDrag]
  /\ migrating = NoMigration
  /\ pendingCreated = {}
  /\ created = [tab |-> 0, window |-> 0, stored |-> Undef, activeBefore |-> Undef,
                idsBefore |-> {}, deferred |-> FALSE]
  /\ calls = {}
  /\ threw = FALSE
  /\ lastOp = "none"
  /\ prevOp = "none"
  /\ steps = 0

\* ----------------------------------------------------------------- actions
\* an event is delivered while the browser runs (its focused window is open):
\* the bounds of the model hold in the world it leaves
Deliver(W, op) ==
  /\ TabsIn(World, curWin) # {}
  /\ W.nextNative <= MaxNative + 1
  /\ \A w \in Windows : W.groupIndex[w] <= MaxGroupIndex + 1
  /\ steps' = steps + 1
  /\ UNCHANGED phase
  /\ Becomes(W, op)

\* fewer than max events have been delivered
Within(max) == steps < max

\* init(): the four awaited phases, before any listener is registered
InitRecover ==
  /\ phase = "recover"
  /\ phase' = "setup"
  /\ UNCHANGED steps
  /\ Becomes([initializeTabGroupAssignments(World, OpenWindows(World)) EXCEPT
                !.isInitializing = FALSE, !.maxTimer = "cleared"],
             "initializeTabGroupAssignments")

InitSetup ==
  /\ phase = "setup"
  /\ phase' = "salvage"
  /\ UNCHANGED steps
  /\ Becomes(setupWindows(World, OpenWindows(World)), "setupWindows")

InitSalvage ==
  /\ phase = "salvage"
  /\ phase' = "migrate"
  /\ UNCHANGED steps
  /\ Becomes(salvageGrouplessTabs(World, {t \in Tabs : tabWin[t] # Closed}), "salvageGrouplessTabs")

InitMigrate ==
  /\ phase = "migrate"
  /\ phase' = "run"
  /\ UNCHANGED steps
  /\ Becomes(migrateToHybridGroups(World), "migrateToHybridGroups")

\* the host opens tab t in window w; preset is the groupId the opener stored
\* on the tab before the handler runs (Undef: none)
HostOpensTab(W, t, w, active, isView, preset) ==
  [W EXCEPT !.tabWin[t] = w, !.tabHidden[t] = FALSE, !.tabNative[t] = NoNative,
            !.tabPinned[t] = FALSE, !.tabView[t] = isView, !.tabGroup[t] = preset,
            !.activeTab[w] = IF active THEN t ELSE @,
            !.pendingActivated = IF active THEN @ \cup {t} ELSE @]

\* what the tabs.onCreated handler of tab t finds when it starts
Found(W, t) ==
  [tab |-> t, window |-> W.tabWin[t], stored |-> W.tabGroup[t],
   activeBefore |-> W.activeGroup[W.tabWin[t]],
   idsBefore |-> Ids(getGroups(W, W.tabWin[t])),
   deferred |-> t \in W.deferred]

\* a tab opens in an open window and tabs.onCreated is handled
TabCreated(t, w, active, isView, preset) ==
  /\ phase = "run"
  /\ tabWin[t] = Closed
  /\ \A u \in 1..(t - 1) : tabWin[u] # Closed
  /\ TabsIn(World, w) # {}
  /\ isView => preset = Undef /\ active /\ w = curWin /\ \A u \in TabsIn(World, w) : ~tabView[u]
  /\ preset # Undef => preset \in Ids(groups[w])
  /\ LET W == HostOpensTab(World, t, w, active, isView, preset)
     IN Deliver(tabCreated([W EXCEPT !.created = Found(W, t), !.deferred = @ \ {t}], t, active, 0), "tabCreated")

\* the user opens window w with tab t: the host focuses the window and
\* announces it with windows.onCreated and its tab with tabs.onCreated
WindowOpened(t, w) ==
  /\ phase = "run"
  /\ tabWin[t] = Closed
  /\ \A u \in 1..(t - 1) : tabWin[u] # Closed
  /\ TabsIn(World, w) = {}
  /\ \A v \in 1..(w - 1) : TabsIn(World, v) # {}
  /\ Deliver([HostOpensTab(World, t, w, TRUE, FALSE, Undef) EXCEPT
                 !.curWin = w, !.winHandler[w] = "pending",
                 !.pendingCreated = @ \cup {t}],
             "windowOpened")

\* the tabs.onCreated event of a new window's tab is handled
NewTabAnnounced(t) ==
  /\ phase = "run"
  /\ t \in pendingCreated
  /\ LET W == [World EXCEPT !.pendingCreated = @ \ {t}]
     IN Deliver(tabCreated([W EXCEPT !.created = Found(W, t), !.deferred = @ \ {t}], t, TRUE, 0), "tabCreated")

\* the user selects a visible tab, or an announced activation is delivered
TabActivated(t) ==
  /\ phase = "run"
  /\ tabWin[t] # Closed
  /\ t \in pendingActivated \/ (~tabHidden[t] /\ activeTab[tabWin[t]] # t)
  /\ Deliver(tabActivated([World EXCEPT !.activeTab[tabWin[t]] =
                                           IF t \in pendingActivated THEN @ ELSE t,
                                        !.curWin = IF t \in pendingActivated
                                                     THEN @ ELSE tabWin[t],
                                        !.tabHidden[t] = FALSE,
                                        !.activated = t,
                                        !.pendingActivated = @ \ {t}], t, 0),
             "tabActivated")

MenuClicked(t, g, near) ==
  /\ phase = "run"
  /\ tabWin[t] = curWin
  /\ ~tabHidden[t]
  /\ g \in Ids(groups[curWin])
  /\ g >= 0
  /\ g # tabGroup[t]
  /\ Deliver(menuClicked(World, t, g, near, 0), "moveTab")

Command(offset, pick) ==
  /\ phase = "run"
  /\ Deliver(changeActiveGroupBy(World, offset, pick), "changeActiveGroupBy")

ViewCreate(w) ==
  /\ phase = "run"
  /\ w = curWin
  /\ Deliver(viewCreate(World, w), "create")

\* windows.onCreated handler, up to the write of the groups list
WindowCreated(w) ==
  /\ phase = "run"
  /\ winHandler[w] = "pending"
  /\ LET W == World
     IN IF getGroups(W, w) = <<>>
          THEN Deliver([setGroups(W, w, <<NewGroup(NextUid(W, w))>>) EXCEPT
                          !.groupIndex[w] = NextUid(W, w) + 1,
                          !.newWinGroup[w] = NextUid(W, w),
                          !.winHandler[w] = "created"],
                       "createGroupInWindowIfMissing")
          ELSE Deliver([W EXCEPT !.winHandler[w] = "idle"], "createGroupInWindowIfMissing")

\* windows.onCreated handler, the write of activeGroup that ends it
WindowActivated(w) ==
  /\ phase = "run"
  /\ winHandler[w] = "created"
  /\ Deliver([setActiveGroup(World, w, newWinGroup[w]) EXCEPT
                 !.newWinGroup[w] = Undef, !.winHandler[w] = "idle"],
             "createGroupInWindow")

\* the user closes tab t (tabs.onRemoved only clears view-tab tracking)
TabRemoved(t, next) ==
  /\ phase = "run"
  /\ tabWin[t] # Closed
  /\ Deliver(tabsRemove(World, {t}, next), "tabRemoved")

\* the user pins a visible tab: the host takes it out of its native group
TabPinned(t) ==
  /\ phase = "run"
  /\ tabWin[t] # Closed
  /\ ~tabHidden[t]
  /\ ~tabPinned[t]
  /\ ~tabView[t]
  /\ Deliver([Regroup(World, {t}, NoNative) EXCEPT !.tabPinned[t] = TRUE], "tabPinned")

DeleteGroup(w, id, next) ==
  /\ phase = "run"
  /\ w = curWin
  /\ id \in Ids(groups[w])
  /\ id >= 0
  /\ Deliver(viewRemove(World, w, id, next), "deleteGroup")

NativeGroupRemoved(n, w) ==
  /\ phase = "run"
  /\ <<n, w>> \in pendingRemoved
  /\ Deliver(nativeGroupRemoved([World EXCEPT !.pendingRemoved = @ \ {<<n, w>>}], n, w),
             "nativeGroupRemoved")

\* the flag is set and, in every open window, the active group that has
\* member tabs carries the id of a live native group
ActiveGroupsMirrored(W) ==
  /\ W.migrationComplete
  /\ \A w \in OpenWindows(W) :
       GroupTabs(W, w, W.activeGroup[w]) # {} =>
         LET i == Find(getGroups(W, w), W.activeGroup[w])
         IN /\ i # 0
            /\ getGroups(W, w)[i].nativeGroupId # NoNative
            /\ NativeExists(W, getGroups(W, w)[i].nativeGroupId)

\* options page: the checkbox changes to newValue
SaveNativeGroupsOption(newValue) ==
  /\ phase = "run"
  /\ LET W == [World EXCEPT !.useNativeGroups = newValue,
                            !.wasMirrored = IF newValue THEN @
                                            ELSE ActiveGroupsMirrored(World)]
     IN IF newValue
          THEN Deliver(migrateToHybridGroups(W), "enableNativeGroups")
          ELSE Deliver(cleanupNativeGroups(W), "cleanupNativeGroups")

\* internal request migrateToHybridGroups (migration status page)
ManualMigrate ==
  /\ phase = "run"
  /\ Deliver(migrateToHybridGroups(World), "migrateToHybridGroups")

\* internal request resetMigration
ResetMigration ==
  /\ phase = "run"
  /\ migrationComplete
  /\ Deliver([World EXCEPT !.migrationComplete = FALSE], "resetMigration")

Next ==
  \/ InitRecover
  \/ InitSetup
  \/ InitSalvage
  \/ InitMigrate
  \/ Within(MaxSteps) /\ \E t \in Tabs, w \in Windows, active \in BOOLEAN, isView \in BOOLEAN,
                            preset \in {Undef} \cup 0..MaxGroupIndex :
                           TabCreated(t, w, active, isView, preset)
  \/ Within(MaxSteps) /\ \E t \in Tabs, w \in Windows : WindowOpened(t, w)
  \/ Within(MaxSteps) /\ \E t \in Tabs : NewTabAnnounced(t)
  \/ Within(MaxSteps) /\ \E t \in Tabs : TabActivated(t)
  \/ Within(MaxSteps) /\ \E t \in Tabs, g \in 0..MaxGroupIndex, near \in Tabs :
                           MenuClicked(t, g, near)
  \/ Within(MaxSteps) /\ \E offset \in {-1, 1}, pick \in Tabs : Command(offset, pick)
  \/ Within(MaxSteps) /\ \E w \in Windows : ViewCreate(w)
  \/ Within(MaxSteps) /\ \E w \in Windows, id \in 0..MaxGroupIndex, next \in Tabs :
                           DeleteGroup(w, id, next)
  \/ Within(MaxSteps) /\ \E w \in Windows : WindowCreated(w)
  \/ Within(MaxSteps) /\ \E w \in Windows : WindowActivated(w)
  \/ Within(MaxSteps) /\ \E t \in Tabs, next \in Tabs : TabRemoved(t, next)
  \/ Within(MaxSteps) /\ \E n \in 1..MaxNative, w \in Windows : NativeGroupRemoved(n, w)
  \/ Within(MaxSteps) /\ \E newValue \in BOOLEAN : SaveNativeGroupsOption(newValue)
  \/ Within(MaxSteps) /\ ManualMigrate
  \/ Within(MaxSteps) /\ ResetMigration

Spec == Init /\ [][Next]_vars

\* StateManager alone: setGroups is called once with any list of at most
\* MaxListLen entries of distinct ids, or with no list at all
GroupEntries ==
  [id : {UNGROUPED_GROUP_ID, 0, 1}, name : {"Group", UNGROUPED_GROUP_NAME},
   nativeGroupId : {NoNative, 1}, isSystemGroup : BOOLEAN,
   rect : {0}, lastMoved : {0}]

GroupLists ==
  {gs \in UNION {[1..n -> GroupEntries] : n \in 0..MaxListLen} :
     \A i, j \in 1..Len(gs) : gs[i].id = gs[j].id => i = j}

\* the array setGroups works on: a missing argument reads as the empty list
ArgList(in) == IF in.present THEN in.list ELSE <<>>

SetGroupsCalled(w, in) ==
  /\ steps = 0
  /\ steps' = 1
  /\ UNCHANGED phase
  /\ Becomes([setGroups(World, w, ArgList(in)) EXCEPT !.given = in], "setGroups")

RoundTripNext ==
  \E w \in Windows, present \in BOOLEAN, list \in GroupLists :
    SetGroupsCalled(w, [window |-> w, present |-> present, list |-> list])

\* a fresh profile with one tab in window 1
RoundTripInit ==
  /\ Init
  /\ \A w \in Windows : groups[w] = <<>>
  /\ \A t \in Tabs \ {1} : tabWin[t] = Closed

RoundTripSpec == RoundTripInit /\ [][RoundTripNext]_vars

\* init() alone, from whatever a restart can bring back: window 1 with the
\* registry [0, 1] of an earlier session in which a group 2 was created and
\* deleted, or no registry at all; every open tab with any stored groupId or
\* none, the overview tab being the one that stores -1
StoredIds == {Undef, PANORAMA_VIEW_GROUP_ID, UNGROUPED_GROUP_ID, 0, 1, 2}

StartupInit ==
  \E stored \in BOOLEAN :
  /\ groups = [w \in Windows |-> IF stored /\ w = 1 THEN StoredGroups ELSE <<>>]
  /\ activeGroup = [w \in Windows |-> IF stored /\ w = 1 THEN 0 ELSE Undef]
  /\ groupIndex = [w \in Windows |-> IF stored /\ w = 1 THEN 3 ELSE 0]
  /\ tabWin \in {f \in [Tabs -> Windows \cup {Closed}] : f[1] = 1}
  /\ tabGroup \in {f \in [Tabs -> StoredIds] :
                    /\ \A t \in Tabs : tabWin[t] = Closed => f[t] = Undef
                    /\ stored => f[1] = 0
                    /\ ~stored => f[1] # PANORAMA_VIEW_GROUP_ID}
  /\ tabHidden = [t \in Tabs |-> stored /\ tabWin[t] = 1 /\ tabGroup[t] \notin {Undef, 0}]
  /\ tabNative = [t \in Tabs |-> NoNative]
  /\ tabPinned = [t \in Tabs |-> FALSE]
  /\ tabView = [t \in Tabs |-> tabGroup[t] = PANORAMA_VIEW_GROUP_ID]
  /\ activeTab = [w \in Windows |->
                    IF \E t \in Tabs : tabWin[t] = w
                      THEN SetMin({t \in Tabs : tabWin[t] = w}) ELSE 0]
  /\ curWin = 1
  /\ nextNative = 1
  /\ migrationComplete = FALSE
  /\ useNativeGroups = TRUE
  /\ pendingActivated = {}
  /\ pendingRemoved = {}
  /\ winHandler = [w \in Windows |-> "idle"]
  /\ newWinGroup = [w \in Windows |-> Undef]
  /\ phase = "recover"
  /\ given = [window |-> 1, present |-> FALSE, list |-> <<>>]
  /\ wasMirrored = FALSE
  /\ startup = [tabGroup |-> tabGroup, hadGroups |-> {w \in Windows : groups[w] # <<>>}]
  /\ toggled = <<>>
  /\ deferred = {}
  /\ activated = 0
  /\ isCleanupInProgress = FALSE
  /\ teardown = [who \in Invocations |-> "idle"]
  /\ optionStored = "unset"
  /\ tornDown = {}
  /\ isInitializing = TRUE
  /\ maxTimer = "unset"
  /\ startTime = 0
  /\ now = 0
  /\ refreshed = FALSE
  /\ waits = [h \in Handlers |-> NoWait]
  /\ waited = NoWait
  /\ view = NoView
  /\ creating = [c \in Creators |-> NoCreate]
  /\ uids = [w \in Windows |-> <<>>]
  /\ openingView = NoOpening
  /\ dragged = [t \in Tabs |-> NoDrag]
  /\ migrating = NoMigration
  /\ pendingCreated = {}
  /\ created = [tab |-> 0, window |-> 0, stored |-> Undef, activeBefore |-> Undef,
                idsBefore |-> {}, deferred |-> FALSE]
  /\ calls = {}
  /\ threw = FALSE
  /\ lastOp = "none"
  /\ prevOp = "none"
  /\ steps = 0

StartupNext ==
  \/ InitRecover
  \/ InitSetup
  \/ InitSalvage
  \/ InitMigrate

StartupSpec == StartupInit /\ [][StartupNext]_vars

\* the visibility controller and the handlers that drive it: tabs and windows
\* open, tabs are pinned and selected, the next/previous command runs
VisibilityNext ==
  \/ InitRecover
  \/ InitSetup
  \/ InitSalvage
  \/ InitMigrate
  \/ Within(MaxVisibilitySteps) /\ \E t \in Tabs, w \in Windows : WindowOpened(t, w)
  \/ Within(MaxVisibilitySteps) /\ \E t \in Tabs : NewTabAnnounced(t)
  \/ Within(MaxVisibilitySteps) /\ \E w \in Windows : WindowCreated(w)
  \/ Within(MaxVisibilitySteps) /\ \E w \in Windows : WindowActivated(w)
  \/ Within(MaxVisibilitySteps) /\ \E t \in Tabs : TabActivated(t)
  \/ Within(MaxVisibilitySteps) /\ \E t \in Tabs : TabPinned(t)
  \/ Within(MaxVisibilitySteps) /\ \E offset \in {-1, 1} : Command(offset, 0)
  \/ Within(MaxVisibilitySteps) /\ \E t \in Tabs : TabRemoved(t, 0)

VisibilitySpec == Init /\ [][VisibilityNext]_vars

\* the extension's life cycle alone: windows and tabs open and close, the
\* pages ask for migration, reset and teardown; no group is edited
LifecycleNext ==
  \/ InitRecover
  \/ InitSetup
  \/ InitSalvage
  \/ InitMigrate
  \/ Within(MaxLifecycleSteps) /\ \E t \in Tabs, w \in Windows :
                                    TabCreated(t, w, TRUE, FALSE, Undef)
  \/ Within(MaxLifecycleSteps) /\ \E t \in Tabs, w \in Windows : WindowOpened(t, w)
  \/ Within(MaxLifecycleSteps) /\ \E t \in Tabs : NewTabAnnounced(t)
  \/ Within(MaxLifecycleSteps) /\ \E w \in Windows : WindowCreated(w)
  \/ Within(MaxLifecycleSteps) /\ \E w \in Windows : WindowActivated(w)
  \/ Within(MaxLifecycleSteps) /\ \E t \in Tabs, next \in Tabs : TabRemoved(t, next)
  \/ Within(MaxLifecycleSteps) /\ \E newValue \in BOOLEAN : SaveNativeGroupsOption(newValue)
  \/ Within(MaxLifecycleSteps) /\ ManualMigrate
  \/ Within(MaxLifecycleSteps) /\ ResetMigration

LifecycleSpec == Init /\ [][LifecycleNext]_vars

\* ------------------------------------------------------------------ claims
\* no handler is part-way through and no announced event waits for delivery
Quiescent ==
  /\ phase = "run"
  /\ pendingActivated = {}
  /\ pendingCreated = {}
  /\ pendingRemoved = {}
  /\ \A w \in Windows : winHandler[w] = "idle"

\* C1: in every state where a window has a group list and no handler of it
\* is part-way through, the window's activeGroup is -1, -2 or the id of a
\* group present in that list
C1_ActiveGroupIsListed ==
  \A w \in Windows :
    (phase = "run" /\ winHandler[w] = "idle" /\ groups[w] # <<>>) =>
      activeGroup[w] \in {PANORAMA_VIEW_GROUP_ID, UNGROUPED_GROUP_ID} \cup Ids(groups[w])

\* C2: a group entry other than -2 carries a nativeGroupId only while it is
\* its window's active group
C2_NativeOnlyOnActiveGroup ==
  \A w \in Windows : \A i \in 1..Len(groups[w]) :
    (groups[w][i].id # UNGROUPED_GROUP_ID /\ groups[w][i].nativeGroupId # NoNative) =>
      groups[w][i].id = activeGroup[w]

\* C3: once every handler has finished, a visible non-pinned tab belongs to
\* its window's active group, or is the overview tab while the overview is
\* the tab shown
C3_VisibleTabsAreActiveGroup ==
  Quiescent =>
    \A t \in Tabs :
      (tabWin[t] # Closed /\ ~tabPinned[t] /\ ~tabHidden[t]
         /\ tabGroup[t] # activeGroup[tabWin[t]]) =>
        (tabGroup[t] = PANORAMA_VIEW_GROUP_ID /\ activeTab[tabWin[t]] = t)



\* migrateToHybridGroups ran: at startup, on request, or on enabling the option
IsMigration(op) == op \in {"migrateToHybridGroups", "enableNativeGroups"}

\* host calls that create, dissolve or update a native group
GroupingCalls(cs) == {c \in cs : c.op \in {"group", "ungroup", "collapse", "expand"}}

Returned == getGroups(World, given.window)

\* C5 as stated: after setGroups(window, G), getGroups(window) holds every
\* entry of G unchanged, and exactly one entry with id -2
C5_EveryEntryUnchanged ==
  lastOp = "setGroups" =>
    /\ \A i \in 1..Len(ArgList(given)) :
         \E j \in 1..Len(Returned) : Returned[j] = ArgList(given)[i]
    /\ Cardinality({j \in 1..Len(Returned) : Returned[j].id = UNGROUPED_GROUP_ID}) = 1

\* C5 amended: after setGroups(window, G), getGroups(window) holds the
\* entries of G with an id other than -2 unchanged and in G's order, and
\* exactly one entry with id -2, which carries the system name, the system
\* flag and no nativeGroupId whatever G's own -2 entry carried; it stands
\* where G had it, or last when G had none
C5_RoundTrip ==
  lastOp = "setGroups" =>
    LET G == ArgList(given)
        k == Find(G, UNGROUPED_GROUP_ID)
    IN /\ Filter(Returned, Ids(Returned) \ {UNGROUPED_GROUP_ID})
            = Filter(G, Ids(G) \ {UNGROUPED_GROUP_ID})
       /\ Cardinality({j \in 1..Len(Returned) : Returned[j].id = UNGROUPED_GROUP_ID}) = 1
       /\ Returned[IF k = 0 THEN Len(G) + 1 ELSE k] = UngroupedGroup
       /\ Len(Returned) = IF k = 0 THEN Len(G) + 1 ELSE Len(G)

\* setGroups was handed a list whose -2 entry carries a nativeGroupId
C5_Witness ==
  /\ lastOp = "setGroups"
  /\ given.present
  /\ \E i \in 1..Len(given.list) :
       given.list[i].id = UNGROUPED_GROUP_ID /\ given.list[i].nativeGroupId # NoNative
  /\ \E i \in 1..Len(given.list) : given.list[i].id # UNGROUPED_GROUP_ID

\* C6: no handler creates a native group out of a candidate set that is
\* all the non-overview tabs of a window, however many tabs that is
C6_NeverGroupsWholeWindow ==
  \A c \in calls :
    (c.op = "group" /\ c.into = NoNative) =>
      \A w \in Windows : c.tabs # NonPanoramaTabs(World, w)

\* C7: when a next/previous-group command makes a user group without member
\* tabs the active group while tabs of the group active before are visible,
\* the handler raises no error and leaves those tabs hidden
C7_EmptyGroupActivationHides ==
  [][(/\ lastOp' = "changeActiveGroupBy"
      /\ activeGroup'[curWin] >= 0
      /\ activeGroup'[curWin] # activeGroup[curWin]
      /\ GroupTabs(World, curWin, activeGroup'[curWin]) = {}
      /\ \E t \in GroupTabs(World, curWin, activeGroup[curWin]) : ~tabHidden[t])
     => (/\ ~threw'
         /\ \A t \in GroupTabs(World, curWin, activeGroup[curWin]) :
              ~tabPinned[t] => tabHidden'[t])]_vars

\* C8: when tab-created has handled a tab that had no assignment and is not
\* the overview tab, in a window whose activeGroup was unset, the tab's
\* groupId and the window's activeGroup both equal the smallest id >= 0 the
\* window's groups list held, or 0 if it held none
C8_CreatedTabResolved ==
  (/\ lastOp = "tabCreated"
   /\ created.stored = Undef
   /\ ~tabView[created.tab]
   /\ created.activeBefore = Undef) =>
    LET existing == {id \in created.idsBefore : id >= 0}
        resolved == IF existing = {} THEN 0 ELSE SetMin(existing)
    IN /\ tabGroup[created.tab] = resolved
       /\ activeGroup[created.window] = resolved

\* tab-created found the window's groups written and its activeGroup not yet
C8_Witness ==
  /\ lastOp = "tabCreated"
  /\ created.stored = Undef
  /\ ~tabView[created.tab]
  /\ created.activeBefore = Undef
  /\ \E id \in created.idsBefore : id >= 0
  /\ UNGROUPED_GROUP_ID \in created.idsBefore

\* ids of the user groups (id >= 0) of a list
UserIds(gs) == {id \in Ids(gs) : id >= 0}

\* C9: after deleteGroup has removed the only user group of a window that
\* stays open, the window's list holds exactly one user group, its id was
\* never used in the window before, and activeGroup equals that id
C9_LastGroupReplaced ==
  [][(/\ lastOp' = "deleteGroup"
      /\ Cardinality(UserIds(groups[curWin])) = 1
      /\ \E t \in Tabs : tabWin'[t] = curWin)
     => \E n \in 0..(MaxGroupIndex + 1) :
          /\ UserIds(groups'[curWin]) = {n}
          /\ n >= groupIndex[curWin]
          /\ activeGroup'[curWin] = n]_vars

\* no group of any window carries a nativeGroupId
AllStripped ==
  \A w \in Windows : \A i \in 1..Len(groups[w]) : groups[w][i].nativeGroupId = NoNative

StartupDone == phase \in {"migrate", "run"}

\* the id startup must leave on a tab of window w that stored s, in a window
\* that had a groups list when startup began
RecoveredId(s, w) ==
  IF isReservedGroupId(s) \/ s \in Ids(groups[w]) THEN s ELSE UNGROUPED_GROUP_ID

C12_UngroupedNormalised ==
  [][\A w \in Windows :
       (groups'[w] # groups[w] /\ groups'[w] # <<>>) =>
         \E i \in 1..Len(groups'[w]) : groups'[w][i] = UngroupedGroup]_vars

\* C13: every host call of a handler that names a native group as its
\* target (tabs.group into a group, tabGroups.update collapse or expand)
\* names a group that exists when the call is made, as a host lookup of the
\* stored nativeGroupId before the call would have established
C13_TargetsVerified ==
  \A c \in calls : c.into # NoNative => c.live

\* C14: an invocation of toggleVisibleTabs issues no host call when its
\* argument is undefined, when it is neither -1, -2 nor a non-negative
\* integer, or when its show-set is empty while its hide-set is not
C14_GateIssuesNothing ==
  \A k \in 1..Len(toggled) :
    (\/ toggled[k].ag = Undef
     \/ toggled[k].ag \notin {PANORAMA_VIEW_GROUP_ID, UNGROUPED_GROUP_ID} /\ toggled[k].ag < 0
     \/ toggled[k].show = {} /\ toggled[k].hide # {}) =>
      toggled[k].issued = <<>>

\* toggleVisibleTabs was invoked with the id of a user group that has no
\* tab to show while other tabs of the window would be hidden
C14_Witness ==
  \E k \in 1..Len(toggled) :
    /\ toggled[k].ag >= 0
    /\ toggled[k].show = {}
    /\ toggled[k].hide # {}
    /\ \E t \in toggled[k].hide : ~tabHidden[t]

\* position of the calls of kind op among the calls of an invocation
CallsAt(issued, op) == {i \in 1..Len(issued) : issued[i].op = op}

\* C15: within one invocation of toggleVisibleTabs every collapse call
\* precedes the hide call, the hide call precedes the show call, and the
\* show call precedes the expand call
C15_CollapseHideShowExpand ==
  \A k \in 1..Len(toggled) :
    LET issued == toggled[k].issued
    IN /\ \A i \in CallsAt(issued, "collapse"), j \in CallsAt(issued, "hide") : i < j
       /\ \A i \in CallsAt(issued, "hide"), j \in CallsAt(issued, "show") : i < j
       /\ \A i \in CallsAt(issued, "show"), j \in CallsAt(issued, "expand") : i < j

\* an invocation collapsed another group's native group, hid tabs, showed
\* tabs and expanded the native group of its own group
C15_Witness ==
  \E k \in 1..Len(toggled) :
    \A op \in {"collapse", "hide", "show", "expand"} : CallsAt(toggled[k].issued, op) # {}

\* C16: no tabs.hide call of the visibility controller names a pinned tab,
\* and no pinned tab is in the show-set of an invocation, whatever group
\* the tab is assigned to
C16_PinnedNeverToggled ==
  \A t \in Tabs : tabPinned[t] =>
    /\ \A c \in calls : c.op = "hide" => t \notin c.tabs
    /\ \A k \in 1..Len(toggled) :
         /\ t \notin toggled[k].show
         /\ t \notin toggled[k].hide
         /\ \A i \in CallsAt(toggled[k].issued, "hide") : t \notin toggled[k].issued[i].tabs

\* an invocation hid tabs in a window that holds a pinned tab of another
\* group than the one it was invoked with
C16_Witness ==
  \E k \in 1..Len(toggled) :
    /\ CallsAt(toggled[k].issued, "hide") # {}
    /\ \E t \in Tabs :
         /\ tabPinned[t]
         /\ tabWin[t] = toggled[k].window
         /\ tabGroup[t] # toggled[k].ag

\* C17: when the tabs.onActivated handler has run for a non-pinned tab
\* with a stored assignment g other than -1, the window's activeGroup is g
\* and the handler's last act was to invoke toggleVisibleTabs with g
C17_ActivationTogglesGroup ==
  (/\ lastOp = "tabActivated"
   /\ activated # 0
   /\ ~tabPinned[activated]
   /\ tabGroup[activated] \notin {Undef, PANORAMA_VIEW_GROUP_ID}) =>
    /\ activeGroup[tabWin[activated]] = tabGroup[activated]
    /\ toggled # <<>>
    /\ toggled[Len(toggled)].ag = tabGroup[activated]

\* C18: when the tabs.onCreated handler has assigned a group g to a tab
\* whose tabs.onActivated handler had returned early for want of an
\* assignment, the handler has invoked toggleVisibleTabs with g
C18_DeferredActivationToggles ==
  (/\ lastOp = "tabCreated"
   /\ created.deferred
   /\ tabGroup[created.tab] \notin {Undef, PANORAMA_VIEW_GROUP_ID}) =>
    \E k \in 1..Len(toggled) : toggled[k].ag = tabGroup[created.tab]

C20_FailedWindowBlocksFlag ==
  [][(/\ IsMigration(lastOp')
      /\ ~migrationComplete
      /\ \E w \in OpenWindows(World) : groups[w] = <<>>) =>
       /\ ~migrationComplete'
       /\ \A w \in OpenWindows(World) :
            (/\ groups[w] # <<>>
             /\ activeGroup[w] \in UserIds(groups[w])
             /\ GroupTabs(World, w, activeGroup[w]) # {}
             /\ GroupTabs(World, w, activeGroup[w]) # NonPanoramaTabs(World, w)) =>
              \E i \in 1..Len(groups'[w]) :
                /\ groups'[w][i].id = activeGroup[w]
                /\ groups'[w][i].nativeGroupId # NoNative
                /\ \E t \in Tabs : tabWin'[t] = w
                                     /\ tabNative'[t] = groups'[w][i].nativeGroupId]_vars

\* a pass of the migration failed in a window without a groups list and
\* created a native group in another window
C20_Witness ==
  /\ IsMigration(lastOp)
  /\ ~migrationComplete
  /\ \E w \in OpenWindows(World) : groups[w] = <<>>
  /\ \E c \in calls : c.op = "group"

\* C21: a pass of the migration (flag not yet set) that meets an open window
\* without a groups list skips that window and sets the completion flag
C21_MissingListSkipped ==
  [][(/\ IsMigration(lastOp')
      /\ ~migrationComplete
      /\ \E w \in OpenWindows(World) : groups[w] = <<>>) =>
       migrationComplete']_vars

\* migrateToHybridGroups while the browser is in use: after the migration's
\* last write and before the verification pass reads the lists, the user
\* dissolves the native groups in removed through the browser UI
migrateToHybridGroupsInUse(W, removed) ==
  IF ~hasTabGroups THEN W
  ELSE IF W.migrationComplete THEN W
  ELSE LET W1 == MigrateWindows(W, OpenWindows(W))
           W2 == [W1 EXCEPT !.migrationComplete = FlagAfterMigration(W)]
           W3 == Regroup(W2, {t \in Tabs : W2.tabWin[t] # Closed /\ W2.tabNative[t] \in removed},
                         NoNative)
       IN IF \E w \in OpenWindows(W) : MigrateWindowThrows(W, w) THEN W2
          ELSE verifyNativeGroupPersistence(W3, OpenWindows(W3))

\* internal request migrateToHybridGroups, handled while the user dissolves
\* native groups
MigrateInUse(removed) ==
  /\ phase = "run"
  /\ ~migrationComplete
  /\ removed \subseteq NativeGroups(World)
  /\ Deliver(migrateToHybridGroupsInUse(World, removed), "migrateToHybridGroups")

\* browser.tabs.ungroup(tabIds) rejected by the host: no tab leaves its group
tabsUngroupRejected(W, ts) ==
  Log(W, [op |-> "ungroup", tabs |-> ts, into |-> NoNative, live |-> FALSE])

\* cleanupNativeGroups for one window that gives the window up when the
\* host rejects its ungroup call
CleanupWindowRejected_GivesUp(W, w) ==
  tabsUngroupRejected(W, {t \in TabsIn(W, w) : W.tabNative[t] # NoNative})

\* cleanupNativeGroups for one window whose ungroup call the host rejects:
\* the failure is logged and the references are cleared all the same
CleanupWindowRejected(W, w) ==
  LET gs == getGroups(W, w)
      allTabsInGroups == {t \in TabsIn(W, w) : W.tabNative[t] # NoNative}
      W1 == IF allTabsInGroups # {} THEN tabsUngroupRejected(W, allTabsInGroups) ELSE W
  IN IF gs = <<>> THEN W ELSE setGroups(W1, w, StripNative(gs))

RECURSIVE CleanupWindowsRejecting(_, _, _)
CleanupWindowsRejecting(W, ws, rejected) ==
  IF ws = {} THEN W
  ELSE LET w == SetMin(ws)
       IN CleanupWindowsRejecting(IF w \in rejected THEN CleanupWindowRejected(W, w)
                                  ELSE CleanupWindow(W, w),
                                  ws \ {w}, rejected)

\* cleanupNativeGroups while the host rejects the ungroup call of the
\* windows in rejected
cleanupNativeGroupsRejecting(W, rejected) ==
  [CleanupWindowsRejecting(W, OpenWindows(W), rejected) EXCEPT !.migrationComplete = FALSE]

\* options page: the checkbox is cleared and the host rejects the ungroup
\* call of teardown in the windows in rejected
CleanupUngroupRejected(rejected) ==
  /\ phase = "run"
  /\ rejected # {}
  /\ \A w \in rejected : \E t \in TabsIn(World, w) : tabNative[t] # NoNative
  /\ Deliver(cleanupNativeGroupsRejecting(
               [World EXCEPT !.useNativeGroups = FALSE,
                             !.wasMirrored = ActiveGroupsMirrored(World)], rejected),
             "cleanupNativeGroups")

\* the native group reconciler in a running browser: groups are switched and
\* created, windows open, tabs are selected and closed, native groups are
\* dissolved, the migration is reset and requested again, the option is
\* switched off and on
ReconcileNext ==
  \/ InitRecover
  \/ InitSetup
  \/ InitSalvage
  \/ InitMigrate
  \/ Within(MaxReconcileSteps) /\ \E offset \in {-1, 1} : Command(offset, 0)
  \/ Within(MaxReconcileSteps) /\ \E t \in Tabs : TabActivated(t)
  \/ Within(MaxReconcileSteps) /\ ResetMigration
  \/ Within(MaxReconcileSteps) /\ \E removed \in SUBSET (1..MaxNative) : MigrateInUse(removed)
  \/ Within(MaxReconcileSteps) /\ \E newValue \in BOOLEAN : SaveNativeGroupsOption(newValue)
  \/ Within(MaxReconcileSteps) /\ \E rejected \in SUBSET Windows : CleanupUngroupRejected(rejected)
  \/ Within(MaxReconcileSteps) /\ \E t \in Tabs, w \in Windows : WindowOpened(t, w)
  \/ Within(MaxReconcileSteps) /\ \E w \in Windows : ViewCreate(w)
  \/ Within(MaxReconcileSteps) /\ \E n \in 1..MaxNative, w \in Windows : NativeGroupRemoved(n, w)
  \/ Within(MaxReconcileSteps) /\ \E t \in Tabs : TabRemoved(t, 0)

ReconcileSpec == Init /\ [][ReconcileNext]_vars

\* a native group that exists in the host after the step
NativeExistsAfter(n) == \E t \in Tabs : tabWin'[t] # Closed /\ tabNative'[t] = n

\* C22: when a run of migrateToHybridGroups has gone through its
\* verification pass, no group of any window stores a nativeGroupId whose
\* native group does not exist
C22_NoStaleReferenceAfterVerify ==
  [][(/\ lastOp' = "migrateToHybridGroups"
      /\ ~migrationComplete
      /\ migrationComplete') =>
       \A w \in Windows : \A i \in 1..Len(groups'[w]) :
         groups'[w][i].nativeGroupId # NoNative =>
           NativeExistsAfter(groups'[w][i].nativeGroupId)]_vars

OptionSaved(newValue) ==
  /\ phase = "run"
  /\ newValue = (optionStored # "true")
  /\ \A who \in Invocations : teardown[who] = "idle"
  /\ LET W == [World EXCEPT !.useNativeGroups = newValue,
                            !.optionStored = IF newValue THEN "true" ELSE "false"]
     IN IF newValue
          THEN Deliver(migrateToHybridGroups(W), "enableNativeGroups")
          ELSE Deliver([W EXCEPT !.teardown =
                          [who \in Invocations |->
                             IF who = "message" \/ optionStored = "true"
                               THEN "queued" ELSE "idle"]],
                       "saveNativeGroupsOption")

\* cleanupNativeGroups is entered: the flag is set
TeardownStart(who) ==
  /\ phase = "run"
  /\ teardown[who] = "queued"
  /\ Deliver([World EXCEPT !.teardown[who] = "started", !.isCleanupInProgress = TRUE],
             "cleanupStarted")

\* cleanupNativeGroups, the pass over the windows: tabs are ungrouped and
\* the stripped lists written
TeardownStrip(who) ==
  /\ phase = "run"
  /\ teardown[who] = "started"
  /\ LET W == CleanupWindows(World, OpenWindows(World))
     IN Deliver([W EXCEPT !.teardown[who] = "stripped",
                          !.tornDown = @ \cup (NativeGroups(World) \ NativeGroups(W))],
                "cleanupStripped")

\* cleanupNativeGroups resets the completion flag and leaves through finally
TeardownEnd(who) ==
  /\ phase = "run"
  /\ teardown[who] = "stripped"
  /\ Deliver([World EXCEPT !.teardown[who] = "idle", !.migrationComplete = FALSE,
                           !.isCleanupInProgress = FALSE],
             "cleanupEnded")

\* a host call of cleanupNativeGroups rejects before the pass: the error is
\* rethrown and finally clears the flag
TeardownThrows(who) ==
  /\ phase = "run"
  /\ teardown[who] = "started"
  /\ Deliver([World EXCEPT !.teardown[who] = "idle", !.isCleanupInProgress = FALSE],
             "cleanupThrew")

TeardownNext ==
  \/ InitRecover
  \/ InitSetup
  \/ InitSalvage
  \/ InitMigrate
  \/ Within(MaxTeardownSteps) /\ \E newValue \in BOOLEAN : OptionSaved(newValue)
  \/ Within(MaxTeardownSteps) /\ \E who \in Invocations : TeardownStart(who)
  \/ Within(MaxTeardownSteps) /\ \E who \in Invocations : TeardownStrip(who)
  \/ Within(MaxTeardownSteps) /\ \E who \in Invocations : TeardownEnd(who)
  \/ Within(MaxTeardownSteps) /\ \E who \in Invocations : TeardownThrows(who)
  \/ Within(MaxTeardownSteps) /\ \E n \in 1..MaxNative, w \in Windows : NativeGroupRemoved(n, w)

TeardownSpec == Init /\ [][TeardownNext]_vars

\* an invocation of cleanupNativeGroups is between its entry and its exit
CleanupRunning == \E who \in Invocations : teardown[who] \in {"started", "stripped"}

\* C24: the tabGroups.onRemoved listener neither reads nor writes a groups
\* list while cleanupNativeGroups is running; the flag is clear once an
\* invocation has ended, by return or by throw; and the event of a native
\* group that teardown dissolved, handled after the flag was cleared, leaves
\* every groups list as it was
C24_TeardownEventsIgnored ==
  [][/\ (lastOp' = "nativeGroupRemoved" /\ CleanupRunning) => calls' = {} /\ groups' = groups
     /\ lastOp' \in {"cleanupEnded", "cleanupThrew"} => ~isCleanupInProgress'
     /\ (/\ lastOp' = "nativeGroupRemoved"
         /\ ~isCleanupInProgress
         /\ \E e \in pendingRemoved \ pendingRemoved' : e[1] \in tornDown) =>
          groups' = groups]_vars

\* ------------------------------------- materialization in the wrong window
\* browser.tabs.group({tabIds}) whose new native group the host places in
\* window v: the tabs are moved there
tabsGroupNewIn(W, ts, v) ==
  LET n == W.nextNative
      W1 == Regroup(W, ts, n)
      moved == [t \in Tabs |-> IF t \in ts THEN v ELSE W.tabWin[t]]
      left(w) == {t \in Tabs : moved[t] = w}
  IN Log([W1 EXCEPT !.nextNative = n + 1,
                    !.tabWin = moved,
                    !.activeTab = [w \in Windows |->
                                     IF W.activeTab[w] \in ts /\ w # v
                                       THEN (IF left(w) = {} THEN 0 ELSE SetMin(left(w)))
                                       ELSE W.activeTab[w]],
                    !.curWin = IF left(W.curWin) = {} THEN v ELSE W.curWin],
         [op |-> "group", tabs |-> ts, into |-> NoNative, live |-> TRUE])

\* tabCreated reaches browser.tabs.group for the group of tab t
CreatedGroupsAnew(W, t) ==
  LET w == W.tabWin[t]
      gs == getGroups(W, w)
      i == Find(gs, W.tabGroup[t])
  IN /\ ~W.tabView[t]
     /\ shouldUseNativeGroups(W)
     /\ W.tabGroup[t] # -1
     /\ i # 0
     /\ gs[i].nativeGroupId = NoNative
     /\ validateAndCheckSafety(W, GroupTabs(W, w, W.tabGroup[t]), w, W.tabGroup[t])

\* tabCreated when the native group it creates lands in window v: the
\* handler returns at the window test
tabCreatedMisplaced(W, t, v) ==
  tabsGroupNewIn(W, GroupTabs(W, W.tabWin[t], W.tabGroup[t]), v)

\* tabActivated reaches browser.tabs.group for the group of tab t
ActivatedGroupsAnew(W, t) ==
  LET w == W.tabWin[t]
      gs == getGroups(W, w)
      i == Find(gs, W.tabGroup[t])
  IN /\ ~W.tabPinned[t]
     /\ W.tabGroup[t] \notin {Undef, -1}
     /\ shouldUseNativeGroups(W)
     /\ i # 0
     /\ gs[i].nativeGroupId = NoNative
     /\ W.tabNative[t] = NoNative
     /\ validateAndCheckSafety(W, GroupTabs(W, w, W.tabGroup[t]), w, W.tabGroup[t])

\* tabActivated when the native group it creates lands in window v: the
\* handler returns at the window test
tabActivatedMisplaced(W, t, v) ==
  LET w == W.tabWin[t]
      W1 == setActiveGroup(W, w, W.tabGroup[t])
  IN tabsGroupNewIn(W1, GroupTabs(W1, w, W.tabGroup[t]), v)

\* migrateWindowGroups reaches browser.tabs.group for the active group of w
MigrationGroupsAnew(W, w) ==
  LET gs == getGroups(W, w)
      k == Find(gs, W.activeGroup[w])
  IN /\ gs # <<>>
     /\ k # 0
     /\ ~(gs[k].nativeGroupId # NoNative /\ NativeExists(W, gs[k].nativeGroupId))
     /\ GroupTabs(W, w, gs[k].id) # {}
     /\ canSafelyGroupTabs(W, GroupTabs(W, w, gs[k].id), w)

\* migrateWindowGroups when the native group it creates for the active group
\* lands in window v: the tabs are ungrouped again, the window's values are
\* removed, and the list is written without the new id
migrateWindowGroupsMisplaced(W, w, v) ==
  LET gs == getGroups(W, w)
      groupTabs == GroupTabs(W, w, W.activeGroup[w])
      W1 == tabsUngroup(tabsGroupNewIn(W, groupTabs, v), groupTabs)
      W2 == [W1 EXCEPT !.groups[w] = <<>>, !.activeGroup[w] = Undef]
      updatedGroups == [j \in 1..Len(gs) |->
                          IF gs[j].nativeGroupId # NoNative /\ NativeExists(W, gs[j].nativeGroupId)
                            THEN gs[j]
                            ELSE [gs[j] EXCEPT !.nativeGroupId = NoNative]]
  IN IF TabsIn(W2, w) = {} THEN W2 ELSE setGroups(W2, w, updatedGroups)

\* a tab opens in window w and the native group tabs.onCreated makes for
\* its group lands in window v
TabCreatedMisplaced(t, w, v) ==
  /\ phase = "run"
  /\ tabWin[t] = Closed
  /\ \A u \in 1..(t - 1) : tabWin[u] # Closed
  /\ TabsIn(World, w) # {}
  /\ TabsIn(World, v) # {}
  /\ v # w
  /\ LET W == AssignCreatedTab(HostOpensTab(World, t, w, TRUE, FALSE, Undef), t)
     IN /\ CreatedGroupsAnew(W, t)
        /\ Deliver(tabCreatedMisplaced([W EXCEPT !.created = Found(W, t)], t, v),
                   "tabCreatedMisplaced")

\* a tab is selected and the native group tabs.onActivated makes for its
\* group lands in window v
TabActivatedMisplaced(t, v) ==
  /\ phase = "run"
  /\ tabWin[t] # Closed
  /\ TabsIn(World, v) # {}
  /\ v # tabWin[t]
  /\ t \in pendingActivated \/ (~tabHidden[t] /\ activeTab[tabWin[t]] # t)
  /\ LET W == [World EXCEPT !.activeTab[tabWin[t]] = IF t \in pendingActivated THEN @ ELSE t,
                            !.curWin = IF t \in pendingActivated THEN @ ELSE tabWin[t],
                            !.tabHidden[t] = FALSE,
                            !.activated = t,
                            !.pendingActivated = @ \ {t}]
     IN /\ ActivatedGroupsAnew(W, t)
        /\ Deliver(tabActivatedMisplaced(W, t, v), "tabActivatedMisplaced")

\* internal request migrateToHybridGroups during which the native group made
\* for window w lands in window v
MigrateMisplaced(w, v) ==
  /\ phase = "run"
  /\ ~migrationComplete
  /\ TabsIn(World, w) # {}
  /\ TabsIn(World, v) # {}
  /\ v # w
  /\ \A u \in OpenWindows(World) : ~MigrateWindowThrows(World, u)
  /\ MigrationGroupsAnew(World, w)
  /\ LET W1 == MigrateWindows(World, OpenWindows(World) \ {w})
         W2 == migrateWindowGroupsMisplaced(W1, w, v)
         W3 == [W2 EXCEPT !.migrationComplete = TRUE]
     IN Deliver(verifyNativeGroupPersistence(W3, OpenWindows(W3)), "migrateMisplaced")

\* the materialization paths with a host that may place a new native group
\* in another window
MisplacedNext ==
  \/ InitRecover
  \/ InitSetup
  \/ InitSalvage
  \/ InitMigrate
  \/ Within(MaxMisplacedSteps) /\ \E t \in Tabs, w \in Windows :
                                    TabCreated(t, w, TRUE, FALSE, Undef)
  \/ Within(MaxMisplacedSteps) /\ \E t \in Tabs : TabActivated(t)
  \/ Within(MaxMisplacedSteps) /\ \E offset \in {-1, 1} : Command(offset, 0)
  \/ Within(MaxMisplacedSteps) /\ ResetMigration
  \/ Within(MaxMisplacedSteps) /\ \E t \in Tabs, w \in Windows, v \in Windows :
                                    TabCreatedMisplaced(t, w, v)
  \/ Within(MaxMisplacedSteps) /\ \E t \in Tabs, v \in Windows : TabActivatedMisplaced(t, v)
  \/ Within(MaxMisplacedSteps) /\ \E w \in Windows, v \in Windows : MigrateMisplaced(w, v)

MisplacedSpec == Init /\ [][MisplacedNext]_vars

\* the handler that just ran created a native group that landed in a window
\* other than the one it worked on
Misplaced(op) == op \in {"migrateMisplaced", "tabCreatedMisplaced", "tabActivatedMisplaced"}

\* C25: on every materialization path, when the native group just created
\* is found in another window, no tab is left in that native group and no
\* window's list stores its id
C25_MisplacedGroupUndone ==
  [][Misplaced(lastOp') =>
       /\ \A t \in Tabs : tabNative'[t] # nextNative
       /\ \A w \in Windows : \A i \in 1..Len(groups'[w]) :
            groups'[w][i].nativeGroupId # nextNative]_vars

\* C26: the tabGroups.onRemoved listener leaves the window's list with the
\* group ids it had, in entries that are as they were except that the entry
\* whose nativeGroupId is the removed native group's id has none afterwards
C26_RemovedKeepsGroups ==
  [][lastOp' = "nativeGroupRemoved" =>
       \A w \in Windows :
         /\ Ids(groups'[w]) = Ids(groups[w])
         /\ Len(groups'[w]) = Len(groups[w])
         /\ \A i \in 1..Len(groups[w]) :
              \/ groups'[w][i] = groups[w][i]
              \/ /\ <<groups[w][i].nativeGroupId, w>> \in pendingRemoved \ pendingRemoved'
                 /\ groups'[w][i] = [groups[w][i] EXCEPT !.nativeGroupId = NoNative]
         /\ \A i \in 1..Len(groups[w]) :
              <<groups[w][i].nativeGroupId, w>> \in pendingRemoved \ pendingRemoved' =>
                groups'[w][i].nativeGroupId = NoNative]_vars

\* the listener has just run and found an entry that stored the id of the
\* removed native group
C26_Witness ==
  /\ lastOp = "nativeGroupRemoved"
  /\ \E c \in calls : c.op = "cleared"

\* C27: no handler issues a host tabs.group call for tabs whose logical
\* group is a pseudo-group (-1 overview, -2 ungrouped)
C27_PseudoGroupsNeverGrouped ==
  \A c \in calls :
    c.op = "group" =>
      \A t \in c.tabs : ~isReservedGroupId(tabGroup[t])

\* C28: after moveTab has moved a tab to a group that is not its window's
\* active group, the tab is a member of no native group
C28_MovedTabLeavesNativeGroup ==
  [][lastOp' = "moveTab" =>
       \A t \in Tabs :
         (tabGroup'[t] # tabGroup[t] /\ tabGroup'[t] # activeGroup'[tabWin[t]]) =>
           tabNative'[t] = NoNative]_vars

\* ---------------------------------------------------- waitForInitialization
\* the lifecycle listeners are registered while init() awaits loadOptions or
\* recovery: refreshView has done it
Registered == refreshed /\ phase = "recover"

\* the maxTimeout timer is due
TimeoutDue == (now - startTime) * TickMs >= INITIALIZATION_TIMEOUT_MS

\* waitForInitialization that returns at once
WaitIsOver_Always(W, h) == TRUE

\* waitForInitialization that never returns
WaitIsOver_Never(W, h) == FALSE

\* the loop of waitForInitialization ends: the flag is clear, or the handler
\* has waited for the timeout plus the buffer
WaitIsOver(W, h) ==
  \/ ~W.isInitializing
  \/ (W.now - W.waits[h].since) * TickMs >= INITIALIZATION_TIMEOUT_MS + WaitBufferMs

\* the clock of the model runs long enough to see n waits out, one after
\* the other
ClockCovers(n) ==
  (MaxNow - now) * TickMs >= n * (INITIALIZATION_TIMEOUT_MS + WaitBufferMs)

\* handler h enters waitForInitialization
Enters(W, h) ==
  [W EXCEPT !.waits[h] = [st |-> "waiting", since |-> W.now, blocked |-> W.isInitializing]]

\* handler h goes on to its body
Leaves(W, h) == [W EXCEPT !.waits[h] = NoWait, !.waited = W.waits[h]]

\* a step of the clock, of a timer or of a wait loop: no handler body runs
Internal(W) ==
  /\ UNCHANGED <<phase, steps, lastOp, prevOp>>
  /\ Moves(W)

\* the refreshView message is handled while init() awaits loadOptions or
\* recovery: the listeners are registered
RefreshView ==
  /\ ~refreshed
  /\ phase = "recover"
  /\ Internal([World EXCEPT !.refreshed = TRUE])

\* loadOptions has returned and initializeTabGroupAssignments starts: it
\* sets the flag, records the time and arms the maxTimeout timer
RecoveryStarts ==
  /\ phase = "recover"
  /\ maxTimer = "unset"
  /\ Internal([World EXCEPT !.isInitializing = TRUE, !.startTime = now,
                           !.maxTimer = "armed"])

\* somebody watches the clock: loadOptions is awaited, the maxTimeout timer
\* is armed, or a handler polls in waitForInitialization
ClockWatched ==
  \/ maxTimer \in {"unset", "armed"}
  \/ \E h \in Handlers : waits[h].st = "waiting"

\* a tick of time passes; a timer that is due fires first, and a wait loop
\* that can end does so within the tick, since it polls every 100 ms
Tick ==
  /\ now < MaxNow
  /\ ClockWatched
  /\ \A h \in Handlers : waits[h].st = "waiting" => ~WaitIsOver(World, h)
  /\ ~(maxTimer = "armed" /\ TimeoutDue)
  /\ Internal([World EXCEPT !.now = @ + 1])

\* the maxTimeout callback runs
MaxTimeoutFires ==
  /\ maxTimer = "armed"
  /\ TimeoutDue
  /\ Internal([World EXCEPT !.maxTimer = "fired", !.isInitializing = FALSE])

\* the user opens window w with tab t while recovery is pending and the
\* listeners are registered:
\* windows.onCreated, tabs.onCreated and tabs.onActivated are invoked and
\* each enters waitForInitialization
WindowArrives(t, w) ==
  /\ Registered
  /\ ClockCovers(1)
  /\ tabWin[t] = Closed
  /\ \A u \in 1..(t - 1) : tabWin[u] # Closed
  /\ TabsIn(World, w) = {}
  /\ \A v \in 1..(w - 1) : TabsIn(World, v) # {}
  /\ LET W == [HostOpensTab(World, t, w, TRUE, FALSE, Undef) EXCEPT
                 !.curWin = w, !.winHandler[w] = "pending",
                 !.pendingCreated = @ \cup {t}]
     IN Deliver(Enters(Enters(Enters(W, <<"window", w>>), <<"created", t>>),
                       <<"activated", t>>),
                "windowOpened")

\* tabDetached that leaves the tab's groupId in place
tabDetached_Keeps(W, t) == W

\* tabDetached: the tab's groupId is removed
tabDetached(W, t) == [W EXCEPT !.tabGroup[t] = Undef]

\* the user drags tab t to window v while recovery is pending and the
\* listeners are registered:
\* tabs.onDetached removes the tab's groupId, tabs.onAttached is invoked and
\* enters waitForInitialization; tabCreated will wait once more after it
TabMoves(t, v) ==
  /\ Registered
  /\ ClockCovers(2)
  /\ waits[<<"created", t>>].st = "none"
  /\ tabWin[t] \notin {Closed, v}
  /\ TabsIn(World, tabWin[t]) # {t}
  /\ TabsIn(World, v) # {}
  /\ ~tabView[t]
  /\ waits[<<"attached", t>>].st = "none"
  /\ LET w == tabWin[t]
         W == [Regroup(World, {t}, NoNative) EXCEPT
                 !.tabWin[t] = v, !.tabHidden[t] = FALSE,
                 !.activeTab[w] = IF @ = t THEN SetMin(TabsIn(World, w) \ {t}) ELSE @]
     IN Deliver(Enters(tabDetached(W, t), <<"attached", t>>), "tabMoved")

\* waitForInitialization returns to handler h
WaitReturns(h) ==
  /\ waits[h].st = "waiting"
  /\ WaitIsOver(World, h)
  /\ Internal([World EXCEPT !.waits[h].st = "released"])

\* tabCreated goes on after waitForInitialization
CreatedRuns(t) ==
  /\ waits[<<"created", t>>].st = "released"
  /\ t \in pendingCreated
  /\ tabWin[t] # Closed
  /\ LET W == Leaves([World EXCEPT !.pendingCreated = @ \ {t},
                                   !.dragged[t].done = (dragged[t].from # 0)],
                      <<"created", t>>)
     IN Deliver(tabCreated([W EXCEPT !.created = Found(W, t), !.deferred = @ \ {t}],
                           t, activeTab[tabWin[t]] = t, 0),
                "tabCreated")

\* tabs.onAttached goes on after waitForInitialization: it gets the tab and
\* calls tabCreated, which enters waitForInitialization itself
AttachedRuns(t) ==
  /\ waits[<<"attached", t>>].st = "released"
  /\ ClockCovers(1)
  /\ tabWin[t] # Closed
  /\ LET W == Leaves(World, <<"attached", t>>)
     IN Deliver(Enters([W EXCEPT !.pendingCreated = @ \cup {t}], <<"created", t>>),
                "tabAttached")

\* tabs.onActivated goes on after waitForInitialization
ActivatedRuns(t) ==
  /\ waits[<<"activated", t>>].st = "released"
  /\ t \in pendingActivated
  /\ tabWin[t] # Closed
  /\ LET W == Leaves([World EXCEPT !.tabHidden[t] = FALSE, !.activated = t,
                                   !.pendingActivated = @ \ {t}], <<"activated", t>>)
     IN Deliver(tabActivated(W, t, 0), "tabActivated")

\* windows.onCreated goes on after waitForInitialization, up to the write
\* of the groups list
WindowCreatedRuns(w) ==
  /\ waits[<<"window", w>>].st = "released"
  /\ winHandler[w] = "pending"
  /\ LET W == Leaves(World, <<"window", w>>)
     IN IF getGroups(W, w) = <<>>
          THEN Deliver([setGroups(W, w, <<NewGroup(NextUid(W, w))>>) EXCEPT
                          !.groupIndex[w] = NextUid(W, w) + 1,
                          !.newWinGroup[w] = NextUid(W, w),
                          !.winHandler[w] = "created"],
                       "createGroupInWindowIfMissing")
          ELSE Deliver([W EXCEPT !.winHandler[w] = "idle"], "createGroupInWindowIfMissing")

\* windows.onCreated, the write of activeGroup that ends it
WindowActivatedRuns(w) ==
  /\ winHandler[w] = "created"
  /\ Deliver([setActiveGroup(World, w, newWinGroup[w]) EXCEPT
                 !.newWinGroup[w] = Undef, !.winHandler[w] = "idle",
                 !.waited = waited],
             "createGroupInWindow")

\* startup with the listeners registered early or late, while time passes
InitializationNext ==
  \/ InitRecover
  \/ InitSetup
  \/ InitSalvage
  \/ InitMigrate
  \/ RefreshView
  \/ RecoveryStarts
  \/ Tick
  \/ MaxTimeoutFires
  \/ \E h \in Handlers : WaitReturns(h)
  \/ Within(MaxInitSteps) /\ \E t \in Tabs, w \in Windows : WindowArrives(t, w)
  \/ Within(MaxInitSteps) /\ \E t \in Tabs, v \in Windows : TabMoves(t, v)
  \/ Within(MaxInitSteps) /\ \E t \in Tabs : CreatedRuns(t)
  \/ Within(MaxInitSteps) /\ \E t \in Tabs : AttachedRuns(t)
  \/ Within(MaxInitSteps) /\ \E t \in Tabs : ActivatedRuns(t)
  \/ Within(MaxInitSteps) /\ \E w \in Windows : WindowCreatedRuns(w)
  \/ Within(MaxInitSteps) /\ \E w \in Windows : WindowActivatedRuns(w)

\* the browser starts with one window; one tab is yet to be opened
InitializationInit ==
  /\ Init
  /\ \A t \in Tabs : tabWin[t] = (IF t < NumTabs THEN 1 ELSE Closed)

InitializationSpec == InitializationInit /\ [][InitializationNext]_vars

\* a lifecycle handler that starts with waitForInitialization has just run
IsLifecycle(op) ==
  op \in {"tabCreated", "tabAttached", "tabActivated",
          "createGroupInWindowIfMissing", "createGroupInWindow"}

\* C29: a tab-created, tab-attached, tab-activated or window-created handler
\* changes a groups list, an activeGroup, a groupIndex or a tab's groupId
\* only when the recovery-in-progress flag is clear or the handler has
\* waited for the timeout plus the buffer
C29_NoWriteWhileInitializing ==
  [][(/\ IsLifecycle(lastOp')
      /\ <<groups', activeGroup', groupIndex', tabGroup'>>
           # <<groups, activeGroup, groupIndex, tabGroup>>) =>
       \/ ~isInitializing
       \/ (now - waited'.since) * TickMs >= INITIALIZATION_TIMEOUT_MS + WaitBufferMs]_vars

\* a lifecycle handler that found the flag set when it was invoked has run
\* and written the registry
C29_Witness ==
  /\ IsLifecycle(lastOp)
  /\ waited.blocked
  /\ \E t \in Tabs : tabGroup[t] # Undef /\ tabWin[t] # Closed /\ created.tab = t

\* startup up to the point where each handler leaves waitForInitialization
WaitingNext ==
  \/ InitRecover
  \/ RefreshView
  \/ RecoveryStarts
  \/ Tick
  \/ MaxTimeoutFires
  \/ \E h \in Handlers : WaitReturns(h)
  \/ Within(MaxInitSteps) /\ \E t \in Tabs, w \in Windows : WindowArrives(t, w)
  \/ Within(MaxInitSteps) /\ \E t \in Tabs, v \in Windows : TabMoves(t, v)
  \/ Within(MaxInitSteps) /\ \E t \in Tabs : AttachedRuns(t)

\* that startup under the scheduling of the event loop: time passes, a timer
\* that is due fires, a wait loop whose condition has ended returns; nothing
\* makes loadOptions or recovery return, and no event has to arrive
InitializationFairSpec ==
  /\ InitializationInit
  /\ [][WaitingNext]_vars
  /\ WF_vars(Tick)
  /\ WF_vars(MaxTimeoutFires)
  /\ \A h \in Handlers : WF_vars(WaitReturns(h))

\* C30: every handler that waits in waitForInitialization eventually leaves
\* it, whether or not recovery ever returns
C30_BlockedHandlersProceed ==
  \A h \in Handlers : (waits[h].st = "waiting") ~> (waits[h].st = "released")

\* a handler that found the flag set has left waitForInitialization while
\* recovery has not returned
C30_Witness ==
  \E h \in Handlers :
    /\ waits[h].st = "released"
    /\ waits[h].blocked
    /\ phase = "recover"

\* ------------------------------------------------- the group id allocator
\* groups.js init(): the overview page of the current window loads its copy
\* of the stored list
viewInit(W, w) == [W EXCEPT !.view = [windowId |-> w, groups |-> W.groups[w]]]

ViewInit(w) ==
  /\ phase = "run"
  /\ w = curWin
  /\ view.windowId = 0
  /\ Deliver(viewInit(World, w), "viewInit")

\* the window create operation c works on: the overview page's window for its
\* create() calls; for createGroupInWindow the window whose
\* createGroupInWindowIfMissing found no stored list
CreatesIn(W, c, w) ==
  IF c = "background"
    THEN W.winHandler[w] = "pending" /\ getGroups(W, w) = <<>>
    ELSE W.view.windowId = w

\* newUid, newGroupUid up to the first await: the stored groupIndex is read
newUidRead(W, c, w) ==
  [W EXCEPT !.creating[c] = [pc |-> "read", uid |-> W.groupIndex[w], window |-> w]]

\* newUid, newGroupUid after the read: uid + 1 is stored and uid returned
newUidWrite(W, c) ==
  LET uid == W.creating[c].uid
      w == W.creating[c].window
  IN [W EXCEPT !.groupIndex[w] = uid + 1,
               !.creating[c].pc = "indexed",
               !.uids[w] = Append(@, uid)]

\* the rest of create(): the group is pushed onto the page's array and the
\* array is saved as it is; the rest of createGroupInWindow: a list of the
\* one new group is written through setGroups and made active
createSave(W, c) ==
  LET uid == W.creating[c].uid
      w == W.creating[c].window
      pushed == Append(W.view.groups, NewGroup(uid))
      gs == ensureUngroupedGroupExists(<<NewGroup(uid)>>)
      lowestPositiveId == getLowestPositiveGroupId(gs)
  IN IF c = "background"
       THEN [setActiveGroup(setGroups(W, w, <<NewGroup(uid)>>), w,
                            IF lowestPositiveId # Undef THEN lowestPositiveId ELSE uid)
               EXCEPT !.creating[c] = NoCreate, !.winHandler[w] = "idle"]
       ELSE [W EXCEPT !.view.groups = pushed, !.groups[w] = pushed,
                      !.creating[c] = NoCreate]

CreateReads(c, w) ==
  /\ phase = "run"
  /\ creating[c].pc = "idle"
  /\ w \in OpenWindows(World)
  /\ CreatesIn(World, c, w)
  /\ Deliver(newUidRead(World, c, w), "newUid")

CreateIndexes(c) ==
  /\ creating[c].pc = "read"
  /\ creating[c].window \in OpenWindows(World)
  /\ Deliver(newUidWrite(World, c), "setGroupIndex")

CreateSaves(c) ==
  /\ creating[c].pc = "indexed"
  /\ creating[c].window \in OpenWindows(World)
  /\ Deliver(createSave(World, c), "create")

\* create operations whose steps interleave
AllocNext ==
  \/ InitRecover
  \/ InitSetup
  \/ InitSalvage
  \/ InitMigrate
  \/ Within(MaxAllocSteps) /\ \E t \in Tabs, w \in Windows : WindowOpened(t, w)
  \/ Within(MaxAllocSteps) /\ \E w \in Windows : ViewInit(w)
  \/ Within(MaxAllocSteps) /\ \E c \in Creators, w \in Windows : CreateReads(c, w)
  \/ Within(MaxAllocSteps) /\ \E c \in Creators : CreateIndexes(c)
  \/ Within(MaxAllocSteps) /\ \E c \in Creators : CreateSaves(c)

AllocSpec == Init /\ [][AllocNext]_vars

\* C31: no stored list holds two groups of the same id, and the ids the
\* allocator has returned for a window are strictly increasing
C31_IdsUniqueAndIncreasing ==
  /\ \A w \in Windows : \A i, j \in 1..Len(groups[w]) :
       groups[w][i].id = groups[w][j].id => i = j
  /\ \A w \in Windows : \A i, j \in 1..Len(uids[w]) :
       i < j => uids[w][i] < uids[w][j]

\* ------------------------------------------------- windows.onCreated alone
\* the windows.onCreated handler runs from start to end for open window w
WindowCreatedWhole(w) ==
  /\ phase = "run"
  /\ w \in OpenWindows(World)
  /\ Deliver([createGroupInWindowIfMissing(World, w) EXCEPT
                !.given = [window |-> w, present |-> getGroups(World, w) # <<>>,
                           list |-> getGroups(World, w)],
                !.winHandler[w] = "idle"],
             "windowCreated")

\* windows open and the handler runs for them, any number of times
WindowNext ==
  \/ InitRecover
  \/ InitSetup
  \/ InitSalvage
  \/ InitMigrate
  \/ Within(MaxWindowSteps) /\ \E t \in Tabs, w \in Windows : WindowOpened(t, w)
  \/ Within(MaxWindowSteps) /\ \E w \in Windows : WindowCreatedWhole(w)
  \/ Within(MaxWindowSteps) /\ \E offset \in {-1, 1} : Command(offset, 0)

WindowSpec == Init /\ [][WindowNext]_vars

\* the list holds exactly one user group, of id uid
OneUserGroup(gs, uid) ==
  /\ uid >= 0
  /\ \E i \in 1..Len(gs) : gs[i].id = uid
  /\ \A i \in 1..Len(gs) : gs[i].id = uid \/ isReservedGroupId(gs[i].id)
  /\ \A i, j \in 1..Len(gs) : gs[i].id = gs[j].id => i = j

\* C32: the window-created handler leaves groups, activeGroup and groupIndex
\* of a window with a stored list as they are; in a window without one it
\* stores exactly one user group and makes it active; a second run right
\* after the first changes nothing
C32_WindowCreatedOnlyIfMissing ==
  [][lastOp' = "windowCreated" =>
       /\ \A w \in Windows :
            groups[w] # <<>> =>
              /\ groups'[w] = groups[w]
              /\ activeGroup'[w] = activeGroup[w]
              /\ groupIndex'[w] = groupIndex[w]
       /\ groups[given'.window] = <<>> =>
            /\ OneUserGroup(groups'[given'.window], activeGroup'[given'.window])
            /\ groupIndex'[given'.window] > activeGroup'[given'.window]
       /\ (lastOp = "windowCreated" /\ given.window = given'.window) =>
            /\ groups' = groups
            /\ activeGroup' = activeGroup
            /\ groupIndex' = groupIndex]_vars

\* the handler has run for window 2, opened while the extension ran, and
\* found the list an earlier run of the handler had stored there
C32_Witness ==
  /\ lastOp = "windowCreated"
  /\ prevOp = "windowCreated"
  /\ given.window = 2
  /\ given.present
  /\ pendingCreated \cap TabsIn(World, 2) # {}
  /\ OneUserGroup(groups[2], activeGroup[2])

\* ------------------------------------------------ opening the overview tab
\* toggleView in a window without an overview tab: the tracking record is
\* set and tabs.create is called; the host opens the tab and will announce it
toggleView(W, t, w) ==
  [HostOpensTab(W, t, w, TRUE, TRUE, Undef) EXCEPT
     !.openingView = [tracked |-> TRUE, tabId |-> 0, windowId |-> w, fresh |-> TRUE],
     !.pendingCreated = @ \cup {t}]

ToggleView(t, w) ==
  /\ phase = "run"
  /\ w = curWin
  /\ tabWin[t] = Closed
  /\ \A u \in 1..(t - 1) : tabWin[u] # Closed
  /\ \A u \in TabsIn(World, w) : ~tabView[u]
  /\ Deliver(toggleView(World, t, w), "toggleView")

\* tabs.create returns to toggleView: the tab id goes into the record unless
\* the record has been cleared
ToggleViewReturns(t) ==
  /\ phase = "run"
  /\ tabView[t]
  /\ openingView.tracked
  /\ openingView.tabId = 0
  /\ openingView.windowId = tabWin[t]
  /\ Deliver([World EXCEPT !.openingView.tabId = t], "toggleViewReturned")

\* 100 ms have passed since the record's creationTimestamp
TrackingAges ==
  /\ openingView.tracked
  /\ openingView.fresh
  /\ Deliver([World EXCEPT !.openingView.fresh = FALSE], "trackingAged")

\* the 5 s timer of toggleView clears the record
TrackingTimesOut ==
  /\ openingView.tracked
  /\ ~openingView.fresh
  /\ Deliver([World EXCEPT !.openingView = NoOpening], "trackingTimedOut")

\* the host opens an ordinary tab in open window w and will announce it
TabOpens(t, w, active) ==
  /\ phase = "run"
  /\ tabWin[t] = Closed
  /\ \A u \in 1..(t - 1) : tabWin[u] # Closed
  /\ TabsIn(World, w) # {}
  /\ Deliver([HostOpensTab(World, t, w, active, FALSE, Undef) EXCEPT
                 !.pendingCreated = @ \cup {t}],
             "tabOpened")

\* tabs.onCreated is handled for a tab the host has opened
TabAnnounced(t) ==
  /\ phase = "run"
  /\ t \in pendingCreated
  /\ tabWin[t] # Closed
  /\ waits[<<"created", t>>].st = "none"
  /\ LET W == [World EXCEPT !.pendingCreated = @ \ {t}]
     IN Deliver(tabCreated([W EXCEPT !.created = Found(W, t), !.deferred = @ \ {t}],
                           t, activeTab[tabWin[t]] = t, 0),
                "tabCreated")

\* the overview tab is opened while other tabs are
OverviewNext ==
  \/ InitRecover
  \/ InitSetup
  \/ InitSalvage
  \/ InitMigrate
  \/ Within(MaxViewSteps) /\ \E t \in Tabs, w \in Windows : ToggleView(t, w)
  \/ Within(MaxViewSteps) /\ \E t \in Tabs : ToggleViewReturns(t)
  \/ Within(MaxViewSteps) /\ TrackingAges
  \/ Within(MaxViewSteps) /\ TrackingTimesOut
  \/ Within(MaxViewSteps) /\ \E t \in Tabs, w \in Windows, active \in BOOLEAN :
                               TabOpens(t, w, active)
  \/ Within(MaxViewSteps) /\ \E t \in Tabs : TabAnnounced(t)

OverviewSpec == Init /\ [][OverviewNext]_vars

\* one of the three signals holds for tab t
ViewSignal(t) ==
  \/ openingView.tracked /\ openingView.tabId = t
  \/ openingView.tracked /\ openingView.windowId = tabWin[t] /\ openingView.fresh
  \/ tabView[t]

\* C33: when tabs.onCreated is handled for a tab that is the tracked tab, or
\* is in the tracked window while the record is fresh, or shows the view
\* url, the tab is assigned -1, the record is cleared, and nothing else
\* happens: no activeGroup or list changes, no tab is hidden, shown or
\* grouped
C33_OverviewTabOnlyAssigned ==
  [][(/\ lastOp' = "tabCreated"
      /\ ViewSignal(created'.tab)) =>
       /\ tabGroup' = [tabGroup EXCEPT ![created'.tab] = PANORAMA_VIEW_GROUP_ID]
       /\ ~openingView'.tracked
       /\ activeGroup' = activeGroup
       /\ groups' = groups
       /\ tabHidden' = tabHidden
       /\ tabNative' = tabNative
       /\ calls' = {}]_vars

\* an ordinary tab opened in the tracked window within 100 ms of the
\* record's creation has been assigned -1 and the record is cleared
C33_Witness ==
  /\ lastOp = "tabCreated"
  /\ ~tabView[created.tab]
  /\ tabGroup[created.tab] = PANORAMA_VIEW_GROUP_ID
  /\ ~openingView.tracked
  /\ \E u \in Tabs : tabView[u] /\ tabWin[u] = tabWin[created.tab]

\* --------------------------------------------- a tab moves between windows
\* the user drags tab t to open window v after startup: tabs.onDetached is
\* handled (the tab's groupId is removed) and tabs.onAttached is invoked and
\* enters waitForInitialization
TabDragged(t, v) ==
  /\ phase = "run"
  /\ tabWin[t] \notin {Closed, v}
  /\ TabsIn(World, tabWin[t]) # {t}
  /\ TabsIn(World, v) # {}
  /\ t \notin pendingCreated
  /\ waits[<<"attached", t>>].st = "none"
  /\ waits[<<"created", t>>].st = "none"
  /\ LET w == tabWin[t]
         W == [Regroup(World, {t}, NoNative) EXCEPT
                 !.tabWin[t] = v, !.tabHidden[t] = FALSE,
                 !.dragged[t] = [from |-> w, had |-> tabGroup[t], done |-> FALSE],
                 !.activeTab[w] = IF @ = t THEN SetMin(TabsIn(World, w) \ {t}) ELSE @]
     IN Deliver(Enters(tabDetached(W, t), <<"attached", t>>), "tabMoved")

\* tabs move between windows after startup; one of them may be the overview
\* tab, and a window may be so new that its activeGroup is not yet stored
MoveNext ==
  \/ InitRecover
  \/ InitSetup
  \/ InitSalvage
  \/ InitMigrate
  \/ \E h \in Handlers : WaitReturns(h)
  \/ Within(MaxMoveSteps) /\ \E t \in Tabs, w \in Windows : ToggleView(t, w)
  \/ Within(MaxMoveSteps) /\ \E t \in Tabs, w \in Windows : WindowOpened(t, w)
  \/ Within(MaxMoveSteps) /\ \E t \in Tabs : TabAnnounced(t)
  \/ Within(MaxMoveSteps) /\ \E t \in Tabs, v \in Windows : TabDragged(t, v)
  \/ Within(MaxMoveSteps) /\ \E t \in Tabs : AttachedRuns(t)
  \/ Within(MaxMoveSteps) /\ \E t \in Tabs : CreatedRuns(t)

MoveSpec == Init /\ [][MoveNext]_vars

\* tab t has been detached and its tabs.onAttached handler has not finished
InTransit(t) == dragged[t].from # 0 /\ ~dragged[t].done

\* the group tabCreated takes for a tab of window w: the stored activeGroup,
\* or the lowest user group of the list, or 0
GroupTakenIn(w) ==
  IF activeGroup[w] # Undef THEN activeGroup[w]
  ELSE IF groups[w] # <<>> /\ \E i \in 1..Len(groups[w]) : groups[w][i].id >= 0
    THEN SetMin({groups[w][i].id : i \in {j \in 1..Len(groups[w]) : groups[w][j].id >= 0}})
  ELSE 0

transform(W, id, rect) ==
  LET index == Find(W.view.groups, id)
      moved == [W.view.groups EXCEPT ![index].rect = rect, ![index].lastMoved = 1]
  IN IF index = 0 THEN W
     ELSE [W EXCEPT !.view.groups = moved, !.groups[W.view.windowId] = moved]

\* the user drags or resizes a group of the overview page
Transform(id, rect) ==
  /\ phase = "run"
  /\ view.windowId \in OpenWindows(World)
  /\ id \in Ids(view.groups)
  /\ Deliver(transform(World, id, rect), "transform")

\* the overview page is open while the background goes on handling events
ArrangeNext ==
  \/ InitRecover
  \/ InitSetup
  \/ InitSalvage
  \/ InitMigrate
  \/ Within(MaxArrangeSteps) /\ \E w \in Windows : ViewInit(w)
  \/ Within(MaxArrangeSteps) /\ \E t \in Tabs : TabActivated(t)
  \/ Within(MaxArrangeSteps) /\ \E offset \in {-1, 1} : Command(offset, 0)
  \/ Within(MaxArrangeSteps) /\ \E id \in {0, 1}, rect \in {0, 1} : Transform(id, rect)

ArrangeSpec == Init /\ [][ArrangeNext]_vars

\* a group with its rect and lastMoved left out
Placeless(g) == [g EXCEPT !.rect = 0, !.lastMoved = 0]

\* C36: transform changes nothing of the stored lists but the rect and the
\* lastMoved of one group: every list keeps its length, every group its id,
\* name, nativeGroupId and isSystemGroup, and at most one group of the
\* page's window gets another rect or lastMoved
C36_TransformWritesRectOnly ==
  [][lastOp' = "transform" =>
       \A w \in Windows :
         /\ Len(groups'[w]) = Len(groups[w])
         /\ \A i \in 1..Len(groups[w]) : Placeless(groups'[w][i]) = Placeless(groups[w][i])
         /\ \A i, j \in 1..Len(groups[w]) :
              (groups'[w][i] # groups[w][i] /\ groups'[w][j] # groups[w][j]) => i = j
         /\ w # view.windowId => groups'[w] = groups[w]]_vars

\* C37: a tabs.onCreated handler hides and shows tabs of the window of its
\* tab alone: each of its toggleVisibleTabs invocations works on that window,
\* and a tab of any other window is as visible after the handler as before
C37_TogglesOnlyEventWindow ==
  [][lastOp' = "tabCreated" =>
       /\ \A i \in 1..Len(toggled') : toggled'[i].window = created'.window
       /\ \A t \in Tabs :
            tabWin[t] \notin {Closed, created'.window} => tabHidden'[t] = tabHidden[t]]_vars

\* C38: in every window, no two groups of the stored list carry the same
\* nativeGroupId
C38_NativeGroupIdsDistinct ==
  \A w \in Windows : \A i, j \in 1..Len(groups[w]) :
    (groups[w][i].nativeGroupId # NoNative
       /\ groups[w][i].nativeGroupId = groups[w][j].nativeGroupId) => i = j

\* -------------------------------------------- writers of the whole list
\* groups.js rename(id, newName): the name is set on the entry of the page's
\* array and save() stores the array as it is
rename(W, id, newName) ==
  LET index == Find(W.view.groups, id)
      renamed == [W.view.groups EXCEPT ![index].name = newName]
  IN IF index = 0 THEN W
     ELSE [W EXCEPT !.view.groups = renamed, !.groups[W.view.windowId] = renamed]

Rename(id, newName) ==
  /\ phase = "run"
  /\ view.windowId \in OpenWindows(World)
  /\ id \in Ids(view.groups)
  /\ Deliver(rename(World, id, newName), "rename")

\* migrateToHybridGroups up to its loop over the windows
MigrationStarts ==
  /\ phase = "run"
  /\ hasTabGroups
  /\ ~migrationComplete
  /\ ~migrating.running
  /\ Deliver([World EXCEPT !.migrating = [running |-> TRUE, todo |-> OpenWindows(World),
                                          window |-> 0, groups |-> <<>>]],
             "migrationStarted")

\* migrateWindowGroups up to its first await: the window's list is read
MigrationReads ==
  /\ migrating.running
  /\ migrating.window = 0
  /\ migrating.todo # {}
  /\ LET w == SetMin(migrating.todo)
     IN IF getGroups(World, w) = <<>>
          THEN Deliver([World EXCEPT !.migrating.todo = @ \ {w}], "migrationRead")
          ELSE Deliver([World EXCEPT !.migrating.window = w,
                                     !.migrating.groups = getGroups(World, w)],
                       "migrationRead")

\* the rest of migrateWindowGroups: the groups of the list it read are
\* materialized and the updated list is written with setGroups
MigrationWrites ==
  /\ migrating.running
  /\ migrating.window # 0
  /\ LET w == migrating.window
         r == MigrateFrom(World, w, migrating.groups, 1)
     IN Deliver([setGroups(r.W, w, r.gs) EXCEPT
                   !.migrating.window = 0, !.migrating.groups = <<>>,
                   !.migrating.todo = @ \ {w}],
                "migrationWritten")

\* the end of migrateToHybridGroups: the flag is set and the stored
\* references are verified
MigrationEnds ==
  /\ migrating.running
  /\ migrating.window = 0
  /\ migrating.todo = {}
  /\ Deliver(verifyNativeGroupPersistence(
               [World EXCEPT !.migrationComplete = TRUE, !.migrating = NoMigration],
               OpenWindows(World)),
             "migrateToHybridGroups")

\* the overview page renames and creates groups while a requested migration
\* is under way
RegistryNext ==
  \/ InitRecover
  \/ InitSetup
  \/ InitSalvage
  \/ InitMigrate
  \/ Within(MaxRegistrySteps) /\ \E w \in Windows : ViewInit(w)
  \/ Within(MaxRegistrySteps) /\ ResetMigration
  \/ Within(MaxRegistrySteps) /\ MigrationStarts
  \/ Within(MaxRegistrySteps) /\ MigrationReads
  \/ Within(MaxRegistrySteps) /\ MigrationWrites
  \/ Within(MaxRegistrySteps) /\ MigrationEnds
  \/ Within(MaxRegistrySteps) /\ \E id \in {0, 1} : Rename(id, "Renamed")
  \/ Within(MaxRegistrySteps) /\ \E w \in Windows : CreateReads("first", w)
  \/ Within(MaxRegistrySteps) /\ CreateIndexes("first")
  \/ Within(MaxRegistrySteps) /\ CreateSaves("first")

RegistrySpec == Init /\ [][RegistryNext]_vars

\* C39: no step other than a deleteGroup removes a group from a stored list,
\* and no step other than a rename changes the name of a user group
C39_GroupsAndNamesSurvive ==
  [][lastOp' # "deleteGroup" =>
       \A w \in Windows : \A i \in 1..Len(groups[w]) :
         /\ groups[w][i].id \in Ids(groups'[w])
         /\ (lastOp' # "rename" /\ groups[w][i].id >= 0) =>
              groups'[w][Find(groups'[w], groups[w][i].id)].name = groups[w][i].name]_vars

\* C40: while the stored preference useNativeGroups is false, the last
\* handler has issued no tabs.group call and no group of any stored list
\* carries a nativeGroupId
C40_NoNativeGroupingWhenDisabled ==
  ~useNativeGroups =>
    /\ \A c \in calls : c.op # "group"
    /\ \A w \in Windows : \A i \in 1..Len(groups[w]) : groups[w][i].nativeGroupId = NoNative

====
